---------------------------- MODULE Spec2Model ----------------------------
(***************************************************************************)
(* Model of the adaptive interview scoring core (adaptive_interviewer.py), *)
(* the audio metric extractors (audio_analyzer.py and                      *)
(* simple_audio_analyzer.py) and the interview sessions (main.py and       *)
(* frontend.py).                                                           *)
(*                                                                         *)
(* Representation                                                          *)
(*  - A Python dict is a TLA+ function whose DOMAIN is the set of keys     *)
(*    present; dict.get(k, d) is Get(dict, k, d).                          *)
(*  - A Python str that the code scans (answer, job title) is a sequence   *)
(*    of one-character strings, so split(), lower() and `in` are computed. *)
(*  - A score is an integer number of tenths of a point (80.5 is 805),     *)
(*    T(80) is 80 points.  Averages are exact rationals num/den and        *)
(*    round(x, 1) is RoundTenths(num, den).  Python rounds the binary      *)
(*    double; the model rounds the exact quotient half-to-even, which is   *)
(*    what round() yields whenever the double is exact.                    *)
(*  - The extractors compute on exact rationals Frac(num, den); the text   *)
(*    they scan (transcripts, summaries, contexts) is a TLA+ string.       *)
(***************************************************************************)
EXTENDS Integers, Sequences, FiniteSets, TLC

VARIABLES
    history,           \* interview_history: the session's list of turns
    calls,             \* calculate_performance_score calls made: argument and result
    lists,             \* the score lists of calculate_performance_score at its last return
    difficulty_calls,  \* determine_difficulty_adjustment calls made
    job_title,         \* the session's job title
    focus_calls,       \* identify_focus_areas calls made
    HAS_LIBROSA,       \* audio_analyzer.HAS_LIBROSA: whether librosa was imported
    upload_path,       \* the recording a caller holds: the file at its path
    upload_transcript, \* the transcript the caller holds for the recording
    extraction,        \* the latest extractor call: arguments, callee calls, outcome
    context_calls,     \* get_adaptive_question_context calls made
    program,           \* the program launched: "main.py" or "frontend.py"
    cli,               \* conduct_single_interview: its position and locals
    session_state,     \* frontend.py: st.session_state
    uploaded,          \* frontend.py: the file in the uploader widget
    rerun,             \* frontend.py: the last run ended in st.rerun()
    spoken_wpm,        \* a speaking rate, in words per minute
    pace_call,         \* the latest calculate_pace_score call: argument and result
    summary_scores,    \* a pace, a confidence and a tone score
    summary_call       \* the latest generate_simple_summary call

aggVars  == <<history, calls, lists>>
diffVars == <<difficulty_calls>>
focusVars == <<job_title, focus_calls>>
extVars == <<HAS_LIBROSA, upload_path, upload_transcript, extraction>>
vars == <<history, calls, lists, difficulty_calls, job_title, focus_calls,
          HAS_LIBROSA, upload_path, upload_transcript, extraction,
          context_calls, program, cli, session_state, uploaded, rerun,
          spoken_wpm, pace_call, summary_scores, summary_call>>
sumVars == <<summary_scores, summary_call>>
paceVars == <<spoken_wpm, pace_call>>
ctxVars == <<context_calls>>
stVars == <<session_state, uploaded, rerun>>
sessionVars == <<program, cli, stVars>>

\* the variables outside each group
notAgg == <<diffVars, focusVars, extVars, ctxVars, sessionVars,
    paceVars, sumVars>>
notDiff == <<aggVars, focusVars, extVars, ctxVars, sessionVars,
    paceVars, sumVars>>
notFocus == <<aggVars, diffVars, extVars, ctxVars, sessionVars,
    paceVars, sumVars>>
notExt == <<aggVars, diffVars, focusVars, ctxVars, sessionVars,
    paceVars, sumVars>>
notCtx == <<aggVars, diffVars, focusVars, extVars, sessionVars,
    paceVars, sumVars>>
notSession == <<aggVars, diffVars, focusVars, extVars, ctxVars,
    paceVars, sumVars>>
notPace == <<aggVars, diffVars, focusVars, extVars, ctxVars, sessionVars,
    sumVars>>
notSum == <<aggVars, diffVars, focusVars, extVars, ctxVars, sessionVars,
    paceVars>>

---------------------------------------------------------------------------
(* Bounds of the model *)

MaxTurns == 3

---------------------------------------------------------------------------
(* Python built-ins used by the source *)

\* points -> tenths of a point
T(x) == x * 10

\* dict.get(key, default)
Get(d, k, default) == IF k \in DOMAIN d THEN d[k] ELSE default

\* the empty dict {}
EmptyDict == [k \in {} |-> 0]

\* truth value of a dict: non-empty
DictTruthy(d) == DOMAIN d # {}

\* truth value of a str: non-empty
StrTruthy(s) == s # ""

RECURSIVE Sum(_)
\* sum(list)
Sum(s) == IF s = <<>> THEN 0 ELSE Head(s) + Sum(Tail(s))

\* len(text.split()): the number of maximal runs of non-blank characters
WordCount(text) ==
    Cardinality({i \in 1..Len(text) :
                    text[i] # " " /\ (i = 1 \/ text[i - 1] = " ")})

\* round(num / den, 1) in tenths, for num in tenths and den > 0
RoundTenths(num, den) ==
    LET q == num \div den
        r == num % den
    IN  IF 2 * r < den THEN q
        ELSE IF 2 * r > den THEN q + 1
        ELSE IF q % 2 = 0 THEN q ELSE q + 1

\* a call log keeps the latest two calls: the one just made and the one before
LastTwo(log) == IF Len(log) > 2 THEN Tail(log) ELSE log


---------------------------------------------------------------------------
(* Inputs: answers, audio metrics and turns *)

\* an answer of n one-letter words separated by single blanks
Words(n) == [i \in 1..(IF n = 0 THEN 0 ELSE 2 * n - 1) |->
                IF i % 2 = 1 THEN "a" ELSE " "]

\* an answer with leading, doubled and trailing blanks around two words
PaddedAnswer == <<" ", " ", "a", " ", " ", "a", " ">>

\* a Metrics record of a successful extraction
Metrics(pace, confidence, tone) ==
    [pace_score |-> pace, confidence_score |-> confidence, tone_score |-> tone]

\* analyze_audio_metrics on a missing or empty file: only the error key
ErrorOnlyMetrics == [error |-> "Audio file is empty"]

\* analyze_audio_simple on an internal failure: error plus all-zero scores
FailedMetrics ==
    [error |-> "Simple audio analysis failed: ", pace_score |-> 0,
     confidence_score |-> 0, tone_score |-> 0,
     analysis_summary |-> "Audio analysis failed"]

\* the turns a caller may append: with and without answer, with and
\* without audio_metrics, error-tagged or not, with and without every score
Turns ==
    { [answer |-> Words(6)],
      [answer |-> <<>>],
      [audio_metrics |-> Metrics(T(80), T(60), T(100))],
      [answer |-> Words(51), audio_metrics |-> Metrics(T(100), T(100), T(100))],
      [answer |-> Words(5), audio_metrics |-> Metrics(0, 0, 0)],
      [answer |-> Words(21), audio_metrics |-> ErrorOnlyMetrics],
      [answer |-> Words(50), audio_metrics |-> FailedMetrics],
      [answer |-> Words(20), audio_metrics |-> EmptyDict],
      [answer |-> Words(6),
       audio_metrics |-> [error |-> "", pace_score |-> T(40),
                          confidence_score |-> T(20), tone_score |-> T(70)]],
      [answer |-> Words(21), audio_metrics |-> [pace_score |-> T(80)]],
      [answer |-> PaddedAnswer,
       audio_metrics |-> [error |-> "decode failed", pace_score |-> T(100),
                          confidence_score |-> T(100), tone_score |-> T(100)]] }

---------------------------------------------------------------------------
(* calculate_performance_score *)

\* EmptyHistoryResult as if the early return used the default 50 of the averages
EmptyHistoryDefaults ==
    [overall |-> T(50), communication |-> T(50), technical |-> T(50),
     confidence |-> T(50)]

\* the early return for an empty history
EmptyHistoryResult ==
    [overall |-> 0, communication |-> 0, technical |-> 0, confidence |-> 0]

\* NewScoreLists as if the lists were created once and shared by every call
KeptScoreLists == lists

\* the lists created at the start of a call
NewScoreLists ==
    [pace |-> <<>>, confidence |-> <<>>, tone |-> <<>>, content |-> <<>>]

\* AudioUsable as if the error tag were not looked at
AudioUsableIgnoringError(audio_metrics) == DictTruthy(audio_metrics)

\* the guard of the audio branch: metrics present, non-empty and no truthy error
AudioUsable(audio_metrics) ==
    /\ DictTruthy(audio_metrics)
    /\ ~ StrTruthy(Get(audio_metrics, "error", ""))

\* answer_length: len(answer.split()) if answer else 0
AnswerLength(answer) == IF answer # <<>> THEN WordCount(answer) ELSE 0

\* the word-count ladder of the content heuristic
ContentScore(answer_length) ==
    IF answer_length > 50 THEN T(85)
    ELSE IF answer_length > 20 THEN T(70)
    ELSE IF answer_length > 5 THEN T(50)
    ELSE T(20)

\* ScoreEntry as if a score the metrics lack were left out of its list
ScoreEntryPresentOnly(acc, entry) ==
    LET audio_metrics == Get(entry, "audio_metrics", EmptyDict)
        answer == Get(entry, "answer", <<>>)
        Present(key) == IF key \in DOMAIN audio_metrics
                        THEN <<audio_metrics[key]>> ELSE <<>>
        withAudio ==
            IF AudioUsable(audio_metrics)
            THEN [acc EXCEPT
                    !.pace = @ \o Present("pace_score"),
                    !.confidence = @ \o Present("confidence_score"),
                    !.tone = @ \o Present("tone_score")]
            ELSE acc
    IN  [withAudio EXCEPT
            !.content = Append(@, ContentScore(AnswerLength(answer)))]

\* ScoreEntry as if the content score were taken inside the audio branch
ScoreEntryAudioOnly(acc, entry) ==
    LET audio_metrics == Get(entry, "audio_metrics", EmptyDict)
        answer == Get(entry, "answer", <<>>)
    IN  IF AudioUsable(audio_metrics)
        THEN [acc EXCEPT
                !.pace = Append(@, Get(audio_metrics, "pace_score", 0)),
                !.confidence = Append(@, Get(audio_metrics, "confidence_score", 0)),
                !.tone = Append(@, Get(audio_metrics, "tone_score", 0)),
                !.content = Append(@, ContentScore(AnswerLength(answer)))]
        ELSE acc

\* one iteration of the loop over history
ScoreEntry(acc, entry) ==
    LET audio_metrics == Get(entry, "audio_metrics", EmptyDict)
        answer == Get(entry, "answer", <<>>)
        withAudio ==
            IF AudioUsable(audio_metrics)
            THEN [acc EXCEPT
                    !.pace = Append(@, Get(audio_metrics, "pace_score", 0)),
                    !.confidence = Append(@, Get(audio_metrics, "confidence_score", 0)),
                    !.tone = Append(@, Get(audio_metrics, "tone_score", 0))]
            ELSE acc
    IN  [withAudio EXCEPT
            !.content = Append(@, ContentScore(AnswerLength(answer)))]

RECURSIVE ScoreEntries(_, _)
\* the loop over history, from the lists acc
ScoreEntries(acc, h) ==
    IF h = <<>> THEN acc ELSE ScoreEntries(ScoreEntry(acc, Head(h)), Tail(h))

\* the lists after the loop of one call
ScoreLists(h) == ScoreEntries(NewScoreLists, h)

\* Average as if an empty list averaged to 0
AverageDefaultZero(xs) ==
    IF xs # <<>> THEN [num |-> Sum(xs), den |-> Len(xs)]
    ELSE [num |-> 0, den |-> 1]

\* an average as an exact fraction: sum(xs) / len(xs) if xs else 50
Average(xs) ==
    IF xs # <<>> THEN [num |-> Sum(xs), den |-> Len(xs)]
    ELSE [num |-> T(50), den |-> 1]

\* CommunicationScore as if the sum were not divided by 3
CommunicationSum(p, c, t) ==
    [num |-> p.num * c.den * t.den + c.num * p.den * t.den + t.num * p.den * c.den,
     den |-> p.den * c.den * t.den]

\* communication_score = (avg_pace + avg_confidence + avg_tone) / 3
CommunicationScore(p, c, t) ==
    [num |-> p.num * c.den * t.den + c.num * p.den * t.den + t.num * p.den * c.den,
     den |-> 3 * p.den * c.den * t.den]

\* overall_score = communication_score * 0.4 + technical_score * 0.6
OverallScore(communication, technical) ==
    [num |-> 4 * communication.num * technical.den
             + 6 * technical.num * communication.den,
     den |-> 10 * communication.den * technical.den]

\* the averages, the derived scores and the rounded result dict
Summarise(l) ==
    LET avg_pace == Average(l.pace)
        avg_confidence == Average(l.confidence)
        avg_tone == Average(l.tone)
        avg_content == Average(l.content)
        communication_score == CommunicationScore(avg_pace, avg_confidence, avg_tone)
        technical_score == avg_content
        overall_score == OverallScore(communication_score, technical_score)
    IN  [overall |-> RoundTenths(overall_score.num, overall_score.den),
         communication |-> RoundTenths(communication_score.num, communication_score.den),
         technical |-> RoundTenths(technical_score.num, technical_score.den),
         confidence |-> RoundTenths(avg_confidence.num, avg_confidence.den),
         pace |-> RoundTenths(avg_pace.num, avg_pace.den),
         tone |-> RoundTenths(avg_tone.num, avg_tone.den)]

calculate_performance_score(h) ==
    IF h = <<>> THEN EmptyHistoryResult ELSE Summarise(ScoreLists(h))

---------------------------------------------------------------------------
(* The aggregator under its callers *)

InitAgg ==
    /\ history = <<>>
    /\ calls = <<>>
    /\ lists = [pace |-> <<>>, confidence |-> <<>>, tone |-> <<>>, content |-> <<>>]

\* a caller appends the turn just answered
AppendTurn ==
    /\ Len(history) < MaxTurns
    /\ \E turn \in Turns : history' = Append(history, turn)
    /\ UNCHANGED <<calls, lists, notAgg>>

\* calculate_performance_score is called on the history held, of any length
\* (create_question_task calls it for non-empty histories only; the function
\* itself accepts the empty one); the call's argument and result are logged
CalcPerformance ==
    /\ calls' = LastTwo(Append(calls,
                    [history |-> history,
                     scores |-> calculate_performance_score(history)]))
    /\ lists' = IF history = <<>> THEN lists ELSE ScoreLists(history)
    /\ UNCHANGED <<history, notAgg>>


---------------------------------------------------------------------------
(* determine_difficulty_adjustment *)

\* determine_difficulty_adjustment as if the warm-up check were missing
determine_difficulty_no_warmup(performance_scores, current_question_num) ==
    LET overall == Get(performance_scores, "overall", T(50))
    IN  IF overall > T(80) THEN "harder"
        ELSE IF overall > T(60) THEN "moderate"
        ELSE IF overall > T(40) THEN "easier"
        ELSE "supportive"

\* determine_difficulty_adjustment as if the tiers were compared with >=
determine_difficulty_inclusive(performance_scores, current_question_num) ==
    LET overall == Get(performance_scores, "overall", T(50))
    IN  IF current_question_num <= 2 THEN "moderate"
        ELSE IF overall >= T(80) THEN "harder"
        ELSE IF overall >= T(60) THEN "moderate"
        ELSE IF overall >= T(40) THEN "easier"
        ELSE "supportive"

determine_difficulty_adjustment(performance_scores, current_question_num) ==
    LET overall == Get(performance_scores, "overall", T(50))
    IN  IF current_question_num <= 2 THEN "moderate"
        ELSE IF overall > T(80) THEN "harder"
        ELSE IF overall > T(60) THEN "moderate"
        ELSE IF overall > T(40) THEN "easier"
        ELSE "supportive"

---------------------------------------------------------------------------
(* identify_focus_areas *)

UpperLetters ==
    <<"A", "B", "C", "D", "E", "F", "G", "H", "I", "J", "K", "L", "M",
      "N", "O", "P", "Q", "R", "S", "T", "U", "V", "W", "X", "Y", "Z">>

LowerLetters ==
    <<"a", "b", "c", "d", "e", "f", "g", "h", "i", "j", "k", "l", "m",
      "n", "o", "p", "q", "r", "s", "t", "u", "v", "w", "x", "y", "z">>

\* the lower-case letter of each upper-case letter
ToLower ==
    [c \in {UpperLetters[i] : i \in 1..Len(UpperLetters)} |->
        LowerLetters[CHOOSE i \in 1..Len(UpperLetters) : UpperLetters[i] = c]]

\* str.lower() on one character
LowerChar(c) == IF c \in DOMAIN ToLower THEN ToLower[c] ELSE c

\* str.lower()
Lower(text) == [i \in 1..Len(text) |-> LowerChar(text[i])]

\* Contains as if the title were tested with startswith
StartsWith(text, sub) ==
    Len(sub) <= Len(text) /\ SubSeq(text, 1, Len(sub)) = sub

\* sub in text
Contains(text, sub) ==
    \E i \in 0..(Len(text) - Len(sub)) : SubSeq(text, i + 1, i + Len(sub)) = sub

Engineer == <<"e", "n", "g", "i", "n", "e", "e", "r">>
Developer == <<"d", "e", "v", "e", "l", "o", "p", "e", "r">>
Manager == <<"m", "a", "n", "a", "g", "e", "r">>

\* identify_focus_areas as if leadership were added only for weak communication
identify_focus_areas_gated(performance_scores, title) ==
    LET f0 == <<>>
        f1 == IF Get(performance_scores, "communication", T(50)) < T(60)
              THEN Append(f0, "communication_skills") ELSE f0
        f2 == IF Get(performance_scores, "confidence", T(50)) < T(50)
              THEN Append(f1, "confidence_building") ELSE f1
        f3 == IF Get(performance_scores, "pace", T(50)) < T(40)
              THEN Append(f2, "pacing") ELSE f2
        f4 == IF Contains(Lower(title), Engineer) \/ Contains(Lower(title), Developer)
              THEN IF Get(performance_scores, "technical", T(50)) < T(60)
                   THEN Append(f3, "technical_depth") ELSE f3
              ELSE f3
        f5 == IF Contains(Lower(title), Manager)
                 /\ Get(performance_scores, "communication", T(50)) < T(60)
              THEN Append(f4, "leadership") ELSE f4
    IN  f5

identify_focus_areas(performance_scores, title) ==
    LET f0 == <<>>
        f1 == IF Get(performance_scores, "communication", T(50)) < T(60)
              THEN Append(f0, "communication_skills") ELSE f0
        f2 == IF Get(performance_scores, "confidence", T(50)) < T(50)
              THEN Append(f1, "confidence_building") ELSE f1
        f3 == IF Get(performance_scores, "pace", T(50)) < T(40)
              THEN Append(f2, "pacing") ELSE f2
        f4 == IF Contains(Lower(title), Engineer) \/ Contains(Lower(title), Developer)
              THEN IF Get(performance_scores, "technical", T(50)) < T(60)
                   THEN Append(f3, "technical_depth") ELSE f3
              ELSE f3
        f5 == IF Contains(Lower(title), Manager)
              THEN Append(f4, "leadership") ELSE f4
    IN  f5

---------------------------------------------------------------------------
(* Inputs of the adaptive controller *)

MaxQuestionNum == 4

\* a full six-key snapshot
Snapshot(overall, communication, technical, confidence, pace) ==
    [overall |-> overall, communication |-> communication,
     technical |-> technical, confidence |-> confidence,
     pace |-> pace, tone |-> T(50)]

\* overall swept across and onto every tier boundary
OverallSweep ==
    { Snapshot(o, T(70), T(70), T(70), T(70)) :
        o \in {0, T(20), 399, T(40), 401, T(45), 599, T(60), 601, T(65),
               799, T(80), 801, T(85), T(100)} }

\* each focus-area score just below and on its threshold
GapSweep ==
    { Snapshot(T(90), c, t, f, p) :
        c \in {599, T(60)}, t \in {599, T(60)}, f \in {499, T(50)},
        p \in {399, T(40)} }

\* snapshots lacking keys: the empty dict, the empty-history result,
\* and a dict with only low overall and communication
PartialSnapshots ==
    { EmptyDict, EmptyHistoryResult, [overall |-> T(90), technical |-> T(90)] }

Snapshots ==
    OverallSweep \cup GapSweep \cup PartialSnapshots
    \cup { Snapshot(T(55), T(55), T(55), T(55), T(55)),
           Snapshot(T(90), T(90), T(90), T(90), T(90)),
           Snapshot(0, 0, 0, 0, 0) }

SeniorEngineer ==
    <<"S", "e", "n", "i", "o", "r", " ", "E", "n", "g", "i", "n", "e", "e", "r">>
SalesManager ==
    <<"S", "a", "l", "e", "s", " ", "M", "a", "n", "a", "g", "e", "r">>
WebDeveloper ==
    <<"W", "E", "B", " ", "D", "E", "V", "E", "L", "O", "P", "E", "R">>
EngineeringManager ==
    <<"E", "n", "g", "i", "n", "e", "e", "r", "i", "n", "g", " ",
      "m", "a", "n", "a", "g", "e", "r">>

ContentCreator ==
    <<"C", "o", "n", "t", "e", "n", "t", " ", "C", "r", "e", "a", "t", "o", "r">>
ProductManager ==
    <<"P", "r", "o", "d", "u", "c", "t", " ", "M", "a", "n", "a", "g", "e", "r">>
AIEngineer ==
    <<"A", "I", " ", "E", "n", "g", "i", "n", "e", "e", "r">>
ManagementTrainee ==
    <<"M", "a", "n", "a", "g", "e", "m", "e", "n", "t", " ",
      "T", "r", "a", "i", "n", "e", "e">>

\* job titles: with and without each keyword, in lower, upper and mixed case,
\* a near miss of "manager", and the empty title
Titles ==
    { SeniorEngineer, SalesManager, WebDeveloper, EngineeringManager,
      ContentCreator, ProductManager, AIEngineer, ManagementTrainee, <<>> }

---------------------------------------------------------------------------
(* The controller functions under their callers *)

InitDifficulty == difficulty_calls = <<>>

InitFocus ==
    /\ job_title \in Titles
    /\ focus_calls = <<>>

\* a caller asks for the difficulty tier of a snapshot and question number
DetermineDifficulty ==
    /\ \E ps \in Snapshots, num \in 1..MaxQuestionNum :
          difficulty_calls' = LastTwo(Append(difficulty_calls,
              [performance_scores |-> ps, current_question_num |-> num,
               difficulty |-> determine_difficulty_adjustment(ps, num)]))
    /\ UNCHANGED notDiff

\* a caller asks for the focus areas of a snapshot for the session's job title
IdentifyFocusAreas ==
    /\ \E ps \in Snapshots :
          focus_calls' = LastTwo(Append(focus_calls,
              [performance_scores |-> ps, job_title |-> job_title,
               focus_areas |-> identify_focus_areas(ps, job_title)]))
    /\ UNCHANGED <<job_title, notFocus>>

---------------------------------------------------------------------------
(* Numbers and text of the audio extractors                                *)
(*                                                                         *)
(* The extractors compute with floats.  A float is modelled by the exact   *)
(* rational it stands for, Frac(num, den) with den > 0, kept in lowest     *)
(* terms; round(x, k) is the integer number of 10^-k units nearest to x,   *)
(* ties to even.  Text the extractors build or scan (transcripts,          *)
(* summaries) is a TLA+ string: Len, SubSeq and \o act on it as len(),     *)
(* slicing and + act on a Python str.                                      *)

RECURSIVE GCD(_, _)
GCD(a, b) == IF b = 0 THEN a ELSE GCD(b, a % b)

\* the rational num/den in lowest terms with a positive denominator
Frac(num, den) ==
    LET n == IF den < 0 THEN -num ELSE num
        d == IF den < 0 THEN -den ELSE den
        g == GCD(IF n < 0 THEN -n ELSE n, d)
    IN  [num |-> n \div g, den |-> d \div g]

\* an int as a float
Num(n) == [num |-> n, den |-> 1]

Add(x, y) == Frac(x.num * y.den + y.num * x.den, x.den * y.den)
Sub(x, y) == Frac(x.num * y.den - y.num * x.den, x.den * y.den)
Mul(x, y) == Frac(x.num * y.num, x.den * y.den)
\* x / y for y # 0
Div(x, y) == Frac(x.num * y.den, x.den * y.num)
Abs(x) == [num |-> IF x.num < 0 THEN -x.num ELSE x.num, den |-> x.den]
Less(x, y) == x.num * y.den < y.num * x.den
LessEq(x, y) == x.num * y.den <= y.num * x.den
\* min(x, y) and max(x, y): the first argument unless the second is smaller/larger
Min(x, y) == IF Less(y, x) THEN y ELSE x
Max(x, y) == IF Less(x, y) THEN y ELSE x

RECURSIVE Pow10(_)
Pow10(k) == IF k = 0 THEN 1 ELSE 10 * Pow10(k - 1)

\* round(x, k), as a number of 10^-k units
Round(x, k) == RoundTenths(x.num * Pow10(k), x.den)

\* None, and a str argument
None == [none |-> TRUE]
Str(text) == [str |-> text]

\* truth value of an Optional[str]: a non-empty str
Truthy(value) == "str" \in DOMAIN value /\ value.str # ""

\* text[i], 1-based
CharAt(text, i) == SubSeq(text, i, i)

\* len(text.split()) of a str
SplitCount(text) ==
    Cardinality({i \in 1..Len(text) :
                    CharAt(text, i) # " " /\ (i = 1 \/ CharAt(text, i - 1) = " ")})

RECURSIVE StrLower(_)
\* text.lower()
StrLower(text) ==
    IF Len(text) <= 1 THEN LowerChar(text)
    ELSE LET half == Len(text) \div 2
         IN  StrLower(SubSeq(text, 1, half))
                 \o StrLower(SubSeq(text, half + 1, Len(text)))

\* sub in text
StrContains(text, sub) ==
    \E i \in 1..(Len(text) - Len(sub) + 1) :
        SubSeq(text, i, i + Len(sub) - 1) = sub

\* the positions at or after i where sub occurs in text
Occurrences(text, sub, i) ==
    {j \in i..(Len(text) - Len(sub) + 1) : SubSeq(text, j, j + Len(sub) - 1) = sub}

RECURSIVE CountFrom(_, _, _)
\* occurrences of sub in text[i:], scanning left to right without overlap
CountFrom(text, sub, i) ==
    LET found == Occurrences(text, sub, i)
    IN  IF found = {} THEN 0
        ELSE LET first == CHOOSE j \in found : \A k \in found : j <= k
             IN  1 + CountFrom(text, sub, first + Len(sub))

\* text.count(sub), for a non-empty sub
StrCount(text, sub) == CountFrom(text, sub, 1)

RECURSIVE JoinWith(_, _)
\* sep.join(parts)
JoinWith(sep, parts) ==
    IF parts = <<>> THEN ""
    ELSE IF Len(parts) = 1 THEN parts[1]
    ELSE parts[1] \o sep \o JoinWith(sep, Tail(parts))

RECURSIVE Repeat(_, _)
\* text * n
Repeat(text, n) == IF n = 0 THEN "" ELSE text \o Repeat(text, n - 1)

---------------------------------------------------------------------------
(* simple_audio_analyzer.py: the heuristic fallback extractor              *)
(*                                                                         *)
(* A function's outcome is Return(value) or Raise(message).  An audio file *)
(* is a record: its path, its state on disk ("missing", "empty",           *)
(* "present", or "vanishing": os.path.exists sees it and it is gone when   *)
(* os.path.getsize looks), its size in bytes, its WAV header as wave.open  *)
(* reads it (None when wave.open raises) and what librosa makes of it.     *)
(* In a Metrics record duration is in hundredths of a second, a score and  *)
(* words_per_minute in tenths.                                             *)

Return(value) == [returned |-> value]
Raise(message) == [raised |-> message]
Raised(outcome) == "raised" \in DOMAIN outcome

\* calculate_pace_score as if the widest band, 80 to 220, were tested first
calculate_pace_score_widest_first(wpm) ==
    IF wpm = Num(0) THEN Num(30)
    ELSE IF LessEq(Num(80), wpm) /\ LessEq(wpm, Num(220))
         THEN Add(Num(50), Mul(Num(20),
                  Sub(Num(1), Div(Abs(Sub(wpm, Num(160))), Num(60)))))
    ELSE Max(Num(20), Sub(Num(50), Div(Abs(Sub(wpm, Num(160))), Num(4))))

\* calculate_pace_score(wpm)
calculate_pace_score(wpm) ==
    IF wpm = Num(0) THEN Num(30)
    ELSE IF LessEq(Num(140), wpm) /\ LessEq(wpm, Num(180))
         THEN Add(Num(90), Mul(Num(10),
                  Sub(Num(1), Div(Abs(Sub(wpm, Num(160))), Num(20)))))
    ELSE IF LessEq(Num(100), wpm) /\ LessEq(wpm, Num(200))
         THEN Add(Num(70), Mul(Num(20),
                  Sub(Num(1), Div(Abs(Sub(wpm, Num(160))), Num(40)))))
    ELSE IF LessEq(Num(80), wpm) /\ LessEq(wpm, Num(220))
         THEN Add(Num(50), Mul(Num(20),
                  Sub(Num(1), Div(Abs(Sub(wpm, Num(160))), Num(60)))))
    ELSE Max(Num(20), Sub(Num(50), Div(Abs(Sub(wpm, Num(160))), Num(4))))

filler_words == <<"um", "uh", "like", "you know", "sort of", "kind of">>

positive_words ==
    <<"excited", "passionate", "confident", "experienced", "skilled",
      "accomplished">>

\* any(word in text for word in words)
AnyIn(words, text) == \E i \in DOMAIN words : StrContains(text, words[i])

\* calculate_confidence_score as if the 5% test came before the 10% test
calculate_confidence_score_light_first(transcript, duration) ==
    IF ~Truthy(transcript) \/ duration = Num(0) THEN 30
    ELSE
        LET word_count == SplitCount(transcript.str)
            lower == StrLower(transcript.str)
            length == IF word_count > 30 THEN 20
                      ELSE IF word_count > 15 THEN 10
                      ELSE IF word_count < 5 THEN -20
                      ELSE 0
            filler_count ==
                Sum([i \in DOMAIN filler_words |-> StrCount(lower, filler_words[i])])
            fillers == IF 20 * filler_count > word_count THEN -8
                       ELSE IF 10 * filler_count > word_count THEN -15
                       ELSE 0
            positive == IF AnyIn(positive_words, lower) THEN 10 ELSE 0
            score == 50 + length + fillers + positive
            capped == IF score > 100 THEN 100 ELSE score
        IN  IF capped < 10 THEN 10 ELSE capped

\* calculate_confidence_score(transcript, duration)
calculate_confidence_score(transcript, duration) ==
    IF ~Truthy(transcript) \/ duration = Num(0) THEN 30
    ELSE
        LET word_count == SplitCount(transcript.str)
            lower == StrLower(transcript.str)
            length == IF word_count > 30 THEN 20
                      ELSE IF word_count > 15 THEN 10
                      ELSE IF word_count < 5 THEN -20
                      ELSE 0
            filler_count ==
                Sum([i \in DOMAIN filler_words |-> StrCount(lower, filler_words[i])])
            \* filler_count > word_count * 0.1, then > word_count * 0.05
            fillers == IF 10 * filler_count > word_count THEN -15
                       ELSE IF 20 * filler_count > word_count THEN -8
                       ELSE 0
            positive == IF AnyIn(positive_words, lower) THEN 10 ELSE 0
            score == 50 + length + fillers + positive
            capped == IF score > 100 THEN 100 ELSE score
        IN  IF capped < 10 THEN 10 ELSE capped

professional_words ==
    <<"experience", "skills", "team", "project", "challenge", "solution",
      "result">>

enthusiastic_words ==
    <<"love", "passionate", "excited", "enjoy", "amazing", "great">>

negative_words ==
    <<"difficult", "hard", "problem", "can't", "unable", "confused">>

\* calculate_tone_score as if a missing transcript were scored like any text
calculate_tone_score_unguarded(transcript) ==
    LET lower == IF Truthy(transcript) THEN StrLower(transcript.str) ELSE ""
        professional_count ==
            Cardinality({i \in DOMAIN professional_words :
                            StrContains(lower, professional_words[i])})
    IN  60 + (IF professional_count > 2 THEN 15
              ELSE IF professional_count > 0 THEN 8 ELSE 0)
           + (IF AnyIn(enthusiastic_words, lower) THEN 10 ELSE 0)
           - (IF AnyIn(negative_words, lower) THEN 10 ELSE 0)

\* calculate_tone_score(transcript)
calculate_tone_score(transcript) ==
    IF ~Truthy(transcript) THEN 40
    ELSE
        LET lower == StrLower(transcript.str)
            professional_count ==
                Cardinality({i \in DOMAIN professional_words :
                                StrContains(lower, professional_words[i])})
            professional == IF professional_count > 2 THEN 15
                            ELSE IF professional_count > 0 THEN 8
                            ELSE 0
            enthusiastic == IF AnyIn(enthusiastic_words, lower) THEN 10 ELSE 0
            negative == IF AnyIn(negative_words, lower) THEN -10 ELSE 0
            score == 60 + professional + enthusiastic + negative
            capped == IF score > 100 THEN 100 ELSE score
        IN  IF capped < 20 THEN 20 ELSE capped

\* generate_simple_summary as if every metric had the thresholds of pace
generate_simple_summary_like_pace(pace_score, confidence_score, tone_score) ==
    LET pace == IF Less(Num(80), pace_score) THEN <<"excellent pacing">>
                ELSE IF Less(Num(60), pace_score) THEN <<"good pacing">>
                ELSE <<"work on pacing">>
        confidence ==
            IF Less(Num(80), confidence_score) THEN <<"confident delivery">>
            ELSE IF Less(Num(60), confidence_score) THEN <<"fairly confident">>
            ELSE <<"build more confidence">>
        tone == IF Less(Num(80), tone_score) THEN <<"professional tone">>
                ELSE IF Less(Num(60), tone_score) THEN <<"good tone">>
                ELSE <<>>
    IN  JoinWith(", ", pace \o confidence \o tone) \o "."

\* generate_simple_summary(pace_score, confidence_score, tone_score)
generate_simple_summary(pace_score, confidence_score, tone_score) ==
    LET pace == IF Less(Num(80), pace_score) THEN <<"excellent pacing">>
                ELSE IF Less(Num(60), pace_score) THEN <<"good pacing">>
                ELSE <<"work on pacing">>
        confidence ==
            IF Less(Num(75), confidence_score) THEN <<"confident delivery">>
            ELSE IF Less(Num(60), confidence_score) THEN <<"fairly confident">>
            ELSE <<"build more confidence">>
        tone == IF Less(Num(75), tone_score) THEN <<"professional tone">>
                ELSE IF Less(Num(60), tone_score) THEN <<"good tone">>
                ELSE <<>>
    IN  JoinWith(", ", pace \o confidence \o tone) \o "."

\* the record of the outer except branch
SimpleFailure(message) ==
    [error |-> "Simple audio analysis failed: " \o message,
     duration |-> 0, words_per_minute |-> 0,
     pace_score |-> 0, confidence_score |-> 0, tone_score |-> 0,
     analysis_summary |-> "Audio analysis failed"]

\* the duration analyze_audio_simple reads: from the WAV header, or from
\* the file size when wave.open or the division raises
SimpleDuration(file) ==
    IF file.wave # None /\ file.wave.rate # 0
    THEN Frac(file.wave.frames, file.wave.rate)
    ELSE Frac(file.size, 32000)

\* the locals of analyze_audio_simple when it scores a file it can size
SimpleLocals(file, transcript) ==
    LET duration == SimpleDuration(file)
        word_count == IF Truthy(transcript) THEN SplitCount(transcript.str)
                      ELSE 0
        words_per_minute ==
            IF Less(Num(0), duration) /\ word_count > 0
            THEN Mul(Div(Num(word_count), duration), Num(60))
            ELSE Num(0)
    IN  [duration |-> duration,
         word_count |-> word_count,
         words_per_minute |-> words_per_minute,
         pace_score |-> calculate_pace_score(words_per_minute),
         confidence_score |->
             Num(calculate_confidence_score(transcript, duration)),
         tone_score |-> Num(calculate_tone_score(transcript))]

\* the record analyze_audio_simple returns from its locals
SimpleRecord(v) ==
    [duration |-> Round(v.duration, 2),
     words_per_minute |-> Round(v.words_per_minute, 1),
     pace_score |-> Round(v.pace_score, 1),
     confidence_score |-> Round(v.confidence_score, 1),
     tone_score |-> Round(v.tone_score, 1),
     word_count |-> v.word_count,
     analysis_summary |->
         generate_simple_summary(v.pace_score, v.confidence_score,
                                 v.tone_score),
     method |-> "simple_analysis"]

\* the try block of analyze_audio_simple
SimpleBody(file, transcript) ==
    IF file.state = "missing"
    THEN Return([error |-> "Audio file not found: " \o file.path])
    ELSE IF file.state = "vanishing"
    THEN Raise("[Errno 2] No such file or directory: '" \o file.path \o "'")
    ELSE IF file.state = "empty"
    THEN Return([error |-> "Audio file is empty"])
    ELSE
        Return(SimpleRecord(SimpleLocals(file, transcript)))

\* the locals of an analyze_audio_simple call that returns scores
SimpleLocalsAtReturn(file, transcript) ==
    IF file.state = "present" THEN SimpleLocals(file, transcript) ELSE None

\* analyze_audio_simple(audio_path, transcript): the try block, and the
\* all-zero record when it raises
analyze_audio_simple(file, transcript) ==
    LET body == SimpleBody(file, transcript)
    IN  IF Raised(body) THEN Return(SimpleFailure(body.raised)) ELSE body

\* the file as a later call finds it
Later(file) ==
    IF file.state = "vanishing"
    THEN [path |-> file.path, state |-> "missing"]
    ELSE file

---------------------------------------------------------------------------
(* audio_analyzer.py: the signal extractor                                 *)
(*                                                                         *)
(* What librosa and numpy compute from the samples is an input: either     *)
(* Raise(message), or Return of the features the scores are derived from   *)
(* (durations in seconds, RMS energy mean and deviation, pitch statistics  *)
(* in Hz).                                                                 *)

\* generate_analysis_summary(pace_score, confidence_score, tone_score, pause_ratio)
generate_analysis_summary(pace_score, confidence_score, tone_score, pause_ratio) ==
    LET pace == IF Less(Num(80), pace_score) THEN "Great speaking pace"
                ELSE IF Less(Num(60), pace_score) THEN "Good speaking pace"
                ELSE IF Less(Num(40), pace_score)
                     THEN "Consider adjusting your speaking speed"
                ELSE "Speaking pace needs improvement"
        confidence ==
            IF Less(Num(80), confidence_score) THEN "confident delivery"
            ELSE IF Less(Num(60), confidence_score) THEN "fairly confident"
            ELSE "work on speaking with more confidence"
        pauses == IF Less(Frac(3, 10), pause_ratio)
                  THEN <<"reduce excessive pauses">>
                  ELSE IF Less(pause_ratio, Frac(5, 100))
                       THEN <<"add strategic pauses for clarity">>
                  ELSE <<>>
    IN  JoinWith(", ", <<pace, confidence>> \o pauses) \o "."

\* WordsPerMinute as if every syllable were a word
WordsPerMinuteOfSyllables(duration, speech_duration) ==
    IF Less(Num(0), speech_duration)
    THEN IF Less(Num(0), duration)
         THEN Mul(Mul(speech_duration, Num(4)), Div(Num(60), duration))
         ELSE Num(0)
    ELSE Num(0)

\* words_per_minute of the speaking-rate estimate
WordsPerMinute(duration, speech_duration) ==
    IF Less(Num(0), speech_duration)
    THEN IF Less(Num(0), duration)
         THEN Mul(Div(Mul(speech_duration, Num(4)), Num(2)),
                  Div(Num(60), duration))
         ELSE Num(0)
    ELSE Num(0)

\* volume_consistency = 1 / (1 + volume_std / (volume_mean + 0.01))
VolumeConsistency(volume_mean, volume_std) ==
    Div(Num(1), Add(Num(1), Div(volume_std, Add(volume_mean, Frac(1, 100)))))

\* pace_score = min(100, max(0, (words_per_minute / 150) * 100))
PaceScore(words_per_minute) ==
    Min(Num(100), Max(Num(0), Mul(Div(words_per_minute, Num(150)), Num(100))))

\* confidence_score = min(100, volume_consistency * 100)
ConfidenceScore(volume_consistency) ==
    Min(Num(100), Mul(volume_consistency, Num(100)))

optimal_variation == Num(50)

\* ToneScore as if the score were not floored at 0
ToneScoreUnclamped(pitch_variation) ==
    Sub(Num(100), Mul(Abs(Sub(pitch_variation, optimal_variation)), Num(2)))

\* ToneScore as if the pitch variation were scored on its signed distance
ToneScoreSigned(pitch_variation) ==
    Max(Num(0), Sub(Num(100), Mul(Sub(pitch_variation, optimal_variation), Num(2))))

\* tone_score = max(0, 100 - abs(pitch_variation - optimal_variation) * 2)
ToneScore(pitch_variation) ==
    Max(Num(0),
        Sub(Num(100), Mul(Abs(Sub(pitch_variation, optimal_variation)), Num(2))))

\* the locals of analyze_audio_metrics when the waveform is analysed
FullLocals(w) ==
    LET words_per_minute == WordsPerMinute(w.duration, w.speech_duration)
        volume_consistency == VolumeConsistency(w.volume_mean, w.volume_std)
    IN  [words_per_minute |-> words_per_minute,
         volume_consistency |-> volume_consistency,
         pitch_variation |-> w.pitch_variation,
         pause_ratio |-> IF Less(Num(0), w.duration)
                         THEN Div(w.pause_duration, w.duration)
                         ELSE Num(0),
         pace_score |-> PaceScore(words_per_minute),
         confidence_score |-> ConfidenceScore(volume_consistency),
         tone_score |-> ToneScore(w.pitch_variation)]

\* FullRecord as if the summary were drawn from the rounded scores
FullRecordSummaryOfReported(w) ==
    LET v == FullLocals(w)
    IN  [duration |-> Round(w.duration, 2),
         words_per_minute |-> Round(v.words_per_minute, 1),
         pace_score |-> Round(v.pace_score, 1),
         confidence_score |-> Round(v.confidence_score, 1),
         tone_score |-> Round(v.tone_score, 1),
         average_pitch |-> Round(w.avg_pitch, 2),
         pitch_range |-> Round(w.pitch_range, 2),
         pitch_variation |-> Round(w.pitch_variation, 2),
         pause_ratio |-> Round(Mul(v.pause_ratio, Num(100)), 1),
         volume_consistency |-> Round(v.volume_consistency, 3),
         analysis_summary |->
             generate_analysis_summary(
                 Frac(Round(v.pace_score, 1), 10),
                 Frac(Round(v.confidence_score, 1), 10),
                 Frac(Round(v.tone_score, 1), 10),
                 Frac(Round(Mul(v.pause_ratio, Num(100)), 1), 1000))]

\* the record of a successful waveform analysis
FullRecord(w) ==
    LET v == FullLocals(w)
    IN  [duration |-> Round(w.duration, 2),
         words_per_minute |-> Round(v.words_per_minute, 1),
         pace_score |-> Round(v.pace_score, 1),
         confidence_score |-> Round(v.confidence_score, 1),
         tone_score |-> Round(v.tone_score, 1),
         average_pitch |-> Round(w.avg_pitch, 2),
         pitch_range |-> Round(w.pitch_range, 2),
         pitch_variation |-> Round(w.pitch_variation, 2),
         pause_ratio |-> Round(Mul(v.pause_ratio, Num(100)), 1),
         volume_consistency |-> Round(v.volume_consistency, 3),
         analysis_summary |->
             generate_analysis_summary(v.pace_score, v.confidence_score,
                                       v.tone_score, v.pause_ratio)]

\* the try block of analyze_audio_metrics
FullBody(file) ==
    IF file.state = "missing"
    THEN Return([error |-> "Audio file not found: " \o file.path])
    ELSE IF file.state = "vanishing"
    THEN Raise("[Errno 2] No such file or directory: '" \o file.path \o "'")
    ELSE IF file.state = "empty"
    THEN Return([error |-> "Audio file is empty"])
    ELSE IF Raised(file.librosa) THEN file.librosa
    ELSE Return(FullRecord(file.librosa.returned))

\* a call that hands the request to analyze_audio_simple and returns its result
HandOver(file, transcript) ==
    [simple_calls |-> <<[audio_path |-> file, transcript |-> transcript]>>,
     locals |-> None,
     simple_locals |-> SimpleLocalsAtReturn(file, transcript),
     outcome |-> analyze_audio_simple(file, transcript)]

\* analyze_audio_metrics(audio_path, transcript): the calls it makes to
\* analyze_audio_simple, its locals when it returns the record of the
\* waveform analysis, and its outcome
analyze_audio_metrics(file, transcript) ==
    IF ~HAS_LIBROSA THEN HandOver(file, transcript)
    ELSE LET body == FullBody(file)
         IN  IF Raised(body) THEN HandOver(Later(file), transcript)
             ELSE [simple_calls |-> <<>>,
                   locals |-> IF file.state = "present"
                              THEN FullLocals(file.librosa.returned)
                              ELSE None,
                   simple_locals |-> None,
                   outcome |-> body]

---------------------------------------------------------------------------
(* Inputs of the extractors: waveforms, files and transcripts *)

\* the pitch deviations swept, in halves of a Hz: 0 to 110 Hz
MaxPitchHalves == 220

\* the features of ten seconds of speech, half of it above the speech
\* threshold, with the given pitch deviation
Waveform(duration, speech_duration, pause_duration, volume_mean, volume_std, pitch_variation) ==
    [duration |-> duration, speech_duration |-> speech_duration,
     pause_duration |-> pause_duration,
     volume_mean |-> volume_mean, volume_std |-> volume_std,
     avg_pitch |-> IF pitch_variation = Num(0) THEN Num(0) ELSE Num(180),
     pitch_range |-> Mul(pitch_variation, Num(4)),
     pitch_variation |-> pitch_variation]

\* every pitch deviation up to the bound, a hundredth of a Hz off 50 and
\* off 100 Hz, and two far beyond 100 Hz
PitchSweep ==
    { Waveform(Num(10), Num(5), Num(2), Frac(1, 20), Frac(1, 50), Frac(k, 2)) :
        k \in 0..MaxPitchHalves }
    \cup { Waveform(Num(10), Num(5), Num(2), Frac(1, 20), Frac(1, 50),
                    Frac(hundredths, 100)) :
             hundredths \in {4999, 5001, 9999, 10001, 20000, 100000} }

\* energy from silent to loud, from perfectly even to erratic
VolumeSweep ==
    { Waveform(Num(10), Num(5), Num(2), volume_mean, volume_std, Num(50)) :
        volume_mean \in {Num(0), Frac(1, 100), Frac(1, 20), Frac(1, 2)},
        volume_std \in {Num(0), Frac(1, 100), Frac(1, 20), Num(1)} }

\* speech from none to every frame (the frames of a clip cover slightly more
\* than its samples), pauses from none to over 30%, and a clip of no samples
SpeechSweep ==
    { Waveform(Num(10), speech_duration, pause_duration, Frac(1, 20),
               Frac(1, 50), Num(30)) :
        speech_duration \in {Num(0), Num(1), Num(5), Frac(15, 2), Num(10),
                             Frac(2001, 200), Frac(1003, 100)},
        pause_duration \in {Num(0), Frac(2, 5), Num(3), Frac(3004, 1000),
                            Frac(7, 2)} }
    \cup { Waveform(Num(0), Num(0), Num(0), Num(0), Num(0), Num(0)) }

Waveforms == PitchSweep \cup VolumeSweep \cup SpeechSweep

\* a file on disk that holds audio
AudioFile(size, wave, librosa) ==
    [path |-> "answer.wav", state |-> "present", size |-> size, wave |-> wave,
     librosa |-> librosa]

\* a WAV header of ten seconds at 16 kHz
TenSeconds == [frames |-> 160000, rate |-> 16000]

\* files librosa cannot decode: a WAV of ten seconds, one of three seconds,
\* one of 3.598 seconds (six words in it are 100.05 words per minute),
\* a header without frames, a header without a rate, and files that are no
\* WAV at all, of 320000 bytes and of one byte
UndecodableFiles ==
    { AudioFile(320044, TenSeconds, Raise("decode failed")),
      AudioFile(96044, [frames |-> 48000, rate |-> 16000], Raise("decode failed")),
      AudioFile(115186, [frames |-> 57571, rate |-> 16000], Raise("decode failed")),
      AudioFile(44, [frames |-> 0, rate |-> 16000], Raise("decode failed")),
      AudioFile(44, [frames |-> 0, rate |-> 0], Raise("decode failed")),
      AudioFile(320000, None, Raise("decode failed")),
      AudioFile(1, None, Raise("decode failed")) }

DecodableFiles ==
    { AudioFile(320044, TenSeconds, Return(w)) : w \in Waveforms }

Files ==
    { [path |-> "answer.wav", state |-> "missing"],
      [path |-> "answer.wav", state |-> "empty"],
      [path |-> "answer.wav", state |-> "vanishing"] }
    \cup UndecodableFiles \cup DecodableFiles

\* transcripts: none, empty, blank, short, plain, full of fillers, with one
\* filler in eleven words, with
\* keywords inside other words and in capitals, over 15 and over 30 words
Transcripts ==
    { None,
      Str(""),
      Str("   "),
      Str("I am excited"),
      Str("we shipped the app last year"),
      Str("um I was like you know sort of unable to fix it"),
      Str("um we shipped the app to every store in the spring season"),
      Str("the maximum size of the album was likely too great"),
      Str("MY EXPERIENCE AND SKILLS HELPED THE TEAM"),
      Str("my experience and skills helped the team deliver the project on "
          \o "time and I love to solve a hard problem with them"),
      Str(Repeat("so ", 31) \o "I am confident") }

---------------------------------------------------------------------------
(* The extractors under their callers *)

\* no extractor call made yet
NoCall == [fn |-> "none"]

InitExtract ==
    /\ HAS_LIBROSA \in BOOLEAN
    /\ upload_path \in Files
    /\ upload_transcript \in Transcripts
    /\ extraction = NoCall

\* the extractors at rest, in the specifications of the other functions
IdleExtract ==
    /\ HAS_LIBROSA = TRUE
    /\ upload_path = [path |-> "answer.wav", state |-> "missing"]
    /\ upload_transcript = None
    /\ extraction = NoCall

\* what is recorded of an extractor call: its name, its arguments, and
\* what the call made of them
Extraction(fn, audio_path, transcript, call) ==
    [fn |-> fn, audio_path |-> audio_path, transcript |-> transcript,
     simple_calls |-> call.simple_calls, locals |-> call.locals,
     simple_locals |-> call.simple_locals, outcome |-> call.outcome]

\* the caller passes its recording and transcript to analyze_audio_metrics
AnalyzeAudioMetrics ==
    /\ extraction' = Extraction("analyze_audio_metrics", upload_path,
                                upload_transcript,
                                analyze_audio_metrics(upload_path,
                                                      upload_transcript))
    /\ UNCHANGED <<HAS_LIBROSA, upload_path, upload_transcript, notExt>>

\* the caller passes its recording and transcript to analyze_audio_simple
AnalyzeAudioSimple ==
    /\ extraction' = [fn |-> "analyze_audio_simple",
                      audio_path |-> upload_path,
                      transcript |-> upload_transcript,
                      simple_calls |-> <<>>, locals |-> None,
                      simple_locals |->
                          SimpleLocalsAtReturn(upload_path, upload_transcript),
                      outcome |-> analyze_audio_simple(upload_path,
                                                       upload_transcript)]
    /\ UNCHANGED <<HAS_LIBROSA, upload_path, upload_transcript, notExt>>

---------------------------------------------------------------------------
(* get_adaptive_question_context *)

\* get_adaptive_question_context as if the overall score were quoted in the text
get_adaptive_question_context_quoting(performance_scores, focus_areas) ==
    "Overall " \o ToString(Get(performance_scores, "overall", T(50))) \o "."
        \o (IF focus_areas # <<>>
            THEN " Focus on: " \o JoinWith(", ", focus_areas) \o "."
            ELSE "")

\* get_adaptive_question_context as if "very well" began above 85
get_adaptive_question_context_above_85(performance_scores, focus_areas) ==
    LET overall_score == Get(performance_scores, "overall", T(50))
        comm_score == Get(performance_scores, "communication", T(50))
    IN  JoinWith(" ",
            <<IF overall_score > T(85)
              THEN "The candidate is performing very well."
              ELSE IF overall_score > T(50)
                   THEN "The candidate is performing adequately."
              ELSE "The candidate needs more support.">>
            \o (IF comm_score < T(50)
                THEN <<"Their communication could be clearer.">>
                ELSE IF comm_score > T(80)
                     THEN <<"They communicate very effectively.">>
                ELSE <<>>)
            \o (IF focus_areas # <<>>
                THEN <<"Focus on: " \o JoinWith(", ", focus_areas) \o ".">>
                ELSE <<>>))

\* get_adaptive_question_context as if the focus areas led the text
get_adaptive_question_context_focus_first(performance_scores, focus_areas) ==
    LET overall_score == Get(performance_scores, "overall", T(50))
        comm_score == Get(performance_scores, "communication", T(50))
    IN  JoinWith(" ",
            (IF focus_areas # <<>>
             THEN <<"Focus on: " \o JoinWith(", ", focus_areas) \o ".">>
             ELSE <<>>)
            \o <<IF overall_score > T(75)
                 THEN "The candidate is performing very well."
                 ELSE IF overall_score > T(50)
                      THEN "The candidate is performing adequately."
                 ELSE "The candidate needs more support.">>
            \o (IF comm_score < T(50)
                THEN <<"Their communication could be clearer.">>
                ELSE IF comm_score > T(80)
                     THEN <<"They communicate very effectively.">>
                ELSE <<>>))

\* get_adaptive_question_context(performance_scores, focus_areas)
get_adaptive_question_context(performance_scores, focus_areas) ==
    LET overall_score == Get(performance_scores, "overall", T(50))
        p1 == IF overall_score > T(75)
              THEN <<"The candidate is performing very well.">>
              ELSE IF overall_score > T(50)
                   THEN <<"The candidate is performing adequately.">>
              ELSE <<"The candidate needs more support.">>
        comm_score == Get(performance_scores, "communication", T(50))
        p2 == IF comm_score < T(50)
              THEN Append(p1, "Their communication could be clearer.")
              ELSE IF comm_score > T(80)
                   THEN Append(p1, "They communicate very effectively.")
              ELSE p1
        context_parts ==
            IF focus_areas # <<>>
            THEN Append(p2, "Focus on: " \o JoinWith(", ", focus_areas) \o ".")
            ELSE p2
    IN  JoinWith(" ", context_parts)

\* overall and communication swept across and onto every band boundary
ContextSweep ==
    { Snapshot(o, c, T(70), T(70), T(70)) :
        o \in {0, T(50), 501, T(75), 751, T(100)},
        c \in {0, 499, T(50), T(65), T(80), 801} }

\* the sweep, snapshots lacking keys, and two with several weak areas
ContextSnapshots ==
    ContextSweep \cup PartialSnapshots
    \cup { Snapshot(T(55), T(55), T(55), T(55), T(55)),
           Snapshot(0, 0, 0, 0, 0) }

InitContext == context_calls = <<>>

\* create_question_task derives the focus areas of a snapshot for the
\* session's job title and renders the context of both
GetAdaptiveQuestionContext ==
    /\ \E ps \in ContextSnapshots :
          LET focus_areas == identify_focus_areas(ps, job_title)
          IN  context_calls' = LastTwo(Append(context_calls,
                  [performance_scores |-> ps, focus_areas |-> focus_areas,
                   context |-> get_adaptive_question_context(ps, focus_areas)]))
    /\ UNCHANGED notCtx

---------------------------------------------------------------------------
(* The interview loops: main.py / interview_simulation.py on the command   *)
(* line, frontend.py under Streamlit                                       *)
(*                                                                         *)
(* The text a model returns is not computed: the str a question crew       *)
(* returns is the record Asked(n, h), tagged with the question number and  *)
(* the history its task was created from, and the evaluation is            *)
(* Evaluated(h).  Str("") is the empty str.  Streamlit runs frontend.py    *)
(* from top to bottom once per event (a click, an upload, st.rerun()); a   *)
(* run is one step.                                                        *)

\* frontend.py: NUM_QUESTIONS
NUM_QUESTIONS == 5

\* main.py: conduct_interviews(num_questions=3)
num_questions == 3

\* the audio chunks counted in a collector
MaxChunks == 2

\* str(question_crew.kickoff()) for create_question_task(_, _, n, h)
Asked(n, h) == [str |-> "question", question_number |-> n, history |-> h]

\* str(evaluation_crew.kickoff()) for create_evaluation_task(_, _, h)
Evaluated(h) == [str |-> "evaluation", history |-> h]

\* traceback.format_exc()
Traceback == Str("Traceback (most recent call last): ...")

\* an answer of 51 words of one letter
DetailedAnswer == "a" \o Repeat(" a", 50)

\* the answers a candidate types or a crew returns, and Whisper's
\* transcripts: nothing, and a detailed answer
Answers == {"", DetailedAnswer}

\* the file a user uploads
UploadedFile == [name |-> "recording.webm"]

\* the saved recording's path
out_wav == "uploads/rec.wav"

(* ---- interview_simulation.py: conduct_single_interview ---- *)

InitCli ==
    cli = [pc |-> "idle", i |-> 0, interview_history |-> <<>>,
           question |-> Str(""), evaluation |-> None]

\* interview_history = [] and the loop is entered
CliBegin ==
    /\ program = "main.py"
    /\ cli.pc = "idle"
    /\ cli' = [cli EXCEPT !.pc = IF 0 < num_questions THEN "question"
                                 ELSE "evaluation",
                          !.i = 0, !.interview_history = <<>>]
    /\ UNCHANGED <<program, stVars, notSession>>

\* question = str(question_crew.kickoff())
CliQuestion ==
    /\ program = "main.py"
    /\ cli.pc = "question"
    /\ cli' = [cli EXCEPT !.pc = "answer",
                          !.question = Asked(cli.i + 1, cli.interview_history)]
    /\ UNCHANGED <<program, stVars, notSession>>

\* the answer is typed or generated, and the turn appended
CliAnswer ==
    /\ program = "main.py"
    /\ cli.pc = "answer"
    /\ \E answer \in Answers :
          cli' = [cli EXCEPT
                    !.interview_history =
                        Append(cli.interview_history,
                               [question |-> cli.question, answer |-> answer]),
                    !.i = cli.i + 1,
                    !.pc = IF cli.i + 1 < num_questions THEN "question"
                           ELSE "evaluation"]
    /\ UNCHANGED <<program, stVars, notSession>>

\* evaluation = str(evaluation_crew.kickoff())
CliEvaluate ==
    /\ program = "main.py"
    /\ cli.pc = "evaluation"
    /\ cli' = [cli EXCEPT !.pc = "done",
                          !.evaluation = Evaluated(cli.interview_history)]
    /\ UNCHANGED <<program, stVars, notSession>>

(* ---- frontend.py ---- *)

\* st.session_state after the defaults of lines 33-56
InitialSessionState ==
    [started |-> FALSE, question_index |-> 0, interview_history |-> <<>>,
     current_question |-> Str(""), evaluation |-> None, finished |-> FALSE,
     last_error |-> None, webrtc_fallback_mode |-> FALSE,
     webrtc_collector |-> None, is_recording |-> FALSE]

InitStreamlit ==
    /\ session_state = InitialSessionState
    /\ uploaded = None
    /\ rerun = FALSE

\* what the services of one run do: whether the question crew, the
\* transcription and the evaluation crew raise, and the transcript
Environments ==
    [question_raises : BOOLEAN, transcribe_raises : BOOLEAN,
     transcript : Answers, evaluation_raises : BOOLEAN]

\* a run in progress: the session state, and whether st.rerun() ended it
Running(s) == [state |-> s, rerun |-> FALSE]
Rerun(s) == [state |-> s, rerun |-> TRUE]

\* "Start Interview" as if it kept the history of the session before
StartInterviewKeepingHistory(s) ==
    [s EXCEPT !.started = TRUE, !.question_index = 0,
              !.current_question = Str(""), !.evaluation = None,
              !.finished = FALSE, !.last_error = None]

\* the body of the "Start Interview" button
StartInterview(s) ==
    [s EXCEPT !.started = TRUE, !.question_index = 0,
              !.interview_history = <<>>, !.current_question = Str(""),
              !.evaluation = None, !.finished = FALSE, !.last_error = None]

\* Layout / Controls
Controls(s, clicked) ==
    IF ~s.started
    THEN IF clicked = "Start Interview" THEN Rerun(StartInterview(s))
         ELSE Running(s)
    ELSE IF clicked = "Restart Interview"
         THEN Rerun([s EXCEPT !.started = FALSE])
         ELSE Running(s)

\* GenerateQuestion as if a failure were shown without ending the session
GenerateQuestionFailingOpen(s, env) ==
    IF s.question_index < NUM_QUESTIONS /\ s.current_question = Str("")
    THEN IF env.question_raises
         THEN [s EXCEPT !.last_error = Traceback]
         ELSE [s EXCEPT !.current_question =
                            Asked(s.question_index + 1, s.interview_history)]
    ELSE s

\* generate question if needed
GenerateQuestion(s, env) ==
    IF s.question_index < NUM_QUESTIONS /\ s.current_question = Str("")
    THEN IF env.question_raises
         THEN [s EXCEPT !.last_error = Traceback, !.finished = TRUE]
         ELSE [s EXCEPT !.current_question =
                            Asked(s.question_index + 1, s.interview_history)]
    ELSE s

\* Answered as if the turn carried the audio metrics of the recording
AnsweredWithMetrics(s, transcript, answered_by) ==
    [s EXCEPT
        !.interview_history =
            Append(s.interview_history,
                   [question |-> s.current_question,
                    answer |-> IF StrTruthy(transcript) THEN transcript
                               ELSE "[audio saved: " \o out_wav \o "]",
                    answered_by |-> answered_by,
                    audio_path |-> out_wav,
                    audio_metrics |-> Metrics(T(100), T(100), T(100))]),
        !.current_question = Str(""),
        !.question_index = s.question_index + 1]

\* Answered as if the question index were left as it was
AnsweredKeepingIndex(s, transcript, answered_by) ==
    [s EXCEPT
        !.interview_history =
            Append(s.interview_history,
                   [question |-> s.current_question,
                    answer |-> IF StrTruthy(transcript) THEN transcript
                               ELSE "[audio saved: " \o out_wav \o "]",
                    answered_by |-> answered_by,
                    audio_path |-> out_wav]),
        !.current_question = Str("")]

\* the turn a recording or an upload appends, and the state after it
Answered(s, transcript, answered_by) ==
    [s EXCEPT
        !.interview_history =
            Append(s.interview_history,
                   [question |-> s.current_question,
                    answer |-> IF StrTruthy(transcript) THEN transcript
                               ELSE "[audio saved: " \o out_wav \o "]",
                    answered_by |-> answered_by,
                    audio_path |-> out_wav]),
        !.current_question = Str(""),
        !.question_index = s.question_index + 1]

\* the webrtc recorder
WebrtcRecorder(s, clicked, env) ==
    IF clicked = "Start Recording (webrtc)"
    THEN Rerun([s EXCEPT !.webrtc_collector = [chunks |-> 0],
                         !.is_recording = TRUE])
    ELSE IF clicked = "Stop & Submit Recording (webrtc)"
    THEN IF s.webrtc_collector = None THEN Running(s)
         ELSE IF s.webrtc_collector.chunks = 0 THEN Running(s)
         ELSE IF env.transcribe_raises
              THEN Running([s EXCEPT !.last_error = Traceback])
         ELSE Rerun([Answered(s, env.transcript, "human_recording")
                        EXCEPT !.webrtc_collector = None])
    ELSE Running(s)

\* the file uploader of the JS recorder fallback
FallbackUploader(s, file, env) ==
    IF file # None
    THEN IF env.transcribe_raises
         THEN Running([s EXCEPT !.last_error = Traceback])
         ELSE Rerun(Answered(s, env.transcript, "human_upload"))
    ELSE Running(s)

\* the question shown with its recorder
QuestionAndRecorder(s, clicked, file, env) ==
    IF ~s.finished /\ s.question_index < NUM_QUESTIONS
    THEN IF clicked = "Use JS Recorder Fallback"
         THEN Rerun([s EXCEPT !.webrtc_fallback_mode = TRUE])
         ELSE IF clicked = "Try WebRTC Recorder"
         THEN Rerun([s EXCEPT !.webrtc_fallback_mode = FALSE])
         ELSE IF ~s.webrtc_fallback_mode
         THEN WebrtcRecorder(s, clicked, env)
         ELSE FallbackUploader(s, file, env)
    ELSE Running(s)

\* after questions -> evaluation
Evaluation(s, env) ==
    IF ~s.finished /\ s.question_index >= NUM_QUESTIONS
    THEN IF env.evaluation_raises
         THEN Rerun([s EXCEPT !.last_error = Traceback, !.finished = TRUE])
         ELSE Rerun([s EXCEPT !.evaluation = Evaluated(s.interview_history),
                              !.finished = TRUE])
    ELSE Running(s)

\* the main interview loop
MainLoop(s, clicked, file, env) ==
    IF s.started /\ ~s.finished
    THEN LET asked == QuestionAndRecorder(GenerateQuestion(s, env), clicked,
                                          file, env)
         IN  IF asked.rerun THEN asked ELSE Evaluation(asked.state, env)
    ELSE Running(s)

\* one run of frontend.py, from the top to the end or to st.rerun()
Script(s, clicked, file, env) ==
    LET controls == Controls(s, clicked)
    IN  IF controls.rerun THEN controls
        ELSE MainLoop(controls.state, clicked, file, env)

\* the widgets the last run rendered
Rendered(widget) ==
    LET s == session_state
        asking == s.started /\ ~s.finished /\ s.question_index < NUM_QUESTIONS
    IN  CASE widget = "Start Interview" -> ~s.started
          [] widget = "Restart Interview" -> s.started
          [] widget \in {"Use JS Recorder Fallback", "Try WebRTC Recorder"} ->
                asking
          [] widget \in {"Start Recording (webrtc)",
                         "Stop & Submit Recording (webrtc)"} ->
                asking /\ ~s.webrtc_fallback_mode
          [] widget = "file_uploader" -> asking /\ s.webrtc_fallback_mode

\* Streamlit runs the script for an event: a clicked button and the
\* uploader's file
Run(clicked, file) ==
    /\ program = "frontend.py"
    /\ \E env \in Environments :
          LET run == Script(session_state, clicked, file, env)
          IN  /\ session_state' = run.state
              /\ rerun' = run.rerun
    /\ uploaded' = file
    /\ UNCHANGED <<program, cli, notSession>>

\* the user can click a button: the page shows it and no run is pending
Clickable(button) == ~rerun /\ Rendered(button)

ClickStartInterview ==
    /\ Clickable("Start Interview")
    /\ Run("Start Interview", uploaded)

ClickRestartInterview ==
    /\ Clickable("Restart Interview")
    /\ Run("Restart Interview", uploaded)

ClickUseFallback ==
    /\ Clickable("Use JS Recorder Fallback")
    /\ Run("Use JS Recorder Fallback", uploaded)

ClickTryWebrtc ==
    /\ Clickable("Try WebRTC Recorder")
    /\ Run("Try WebRTC Recorder", uploaded)

ClickStartRecording ==
    /\ Clickable("Start Recording (webrtc)")
    /\ Run("Start Recording (webrtc)", uploaded)

ClickStopAndSubmit ==
    /\ Clickable("Stop & Submit Recording (webrtc)")
    /\ Run("Stop & Submit Recording (webrtc)", uploaded)

\* the user puts a file into the uploader
UploadFile ==
    /\ ~rerun
    /\ Rendered("file_uploader")
    /\ uploaded = None
    /\ Run("", UploadedFile)

\* the user takes the file out of the uploader
RemoveFile ==
    /\ ~rerun
    /\ Rendered("file_uploader")
    /\ uploaded # None
    /\ Run("", None)

\* the run st.rerun() asked for; the uploader keeps its file while the
\* page shows it
RerunScript ==
    /\ rerun
    /\ Run("", IF Rendered("file_uploader") THEN uploaded ELSE None)

\* the audio callback delivers a frame to the collector
AddFrame ==
    /\ program = "frontend.py"
    /\ session_state.webrtc_collector # None
    /\ session_state.webrtc_collector.chunks < MaxChunks
    /\ session_state' =
          [session_state EXCEPT !.webrtc_collector.chunks = @ + 1]
    /\ UNCHANGED <<program, cli, uploaded, rerun, notSession>>

InitSession ==
    /\ program \in {"main.py", "frontend.py"}
    /\ InitCli
    /\ InitStreamlit

\* no interview loop runs, in the specifications of the functions
IdleSession ==
    /\ program = "none"
    /\ InitCli
    /\ InitStreamlit

(***************************************************************************)
(* simple_audio_analyzer.py: calculate_pace_score on its own               *)
(***************************************************************************)

\* the largest speaking rate applied, in tenths of a word per minute
MaxWpmTenths == 3000

\* the speaking rates: every tenth of a word per minute up to the bound
SpeakingRates == { Frac(tenths, 10) : tenths \in 0..MaxWpmTenths }

InitPace ==
    /\ spoken_wpm \in SpeakingRates
    /\ pace_call = NoCall

\* no speaking rate is scored on its own
IdlePace ==
    /\ spoken_wpm = Num(0)
    /\ pace_call = NoCall

\* a caller scores the speaking rate
CalculatePaceScore ==
    /\ pace_call' = [fn |-> "calculate_pace_score",
                     wpm |-> spoken_wpm,
                     result |-> calculate_pace_score(spoken_wpm)]
    /\ UNCHANGED <<spoken_wpm, notPace>>

(***************************************************************************)
(* simple_audio_analyzer.py: generate_simple_summary on its own            *)
(***************************************************************************)

\* scores on and a tenth of a point above every threshold, and both ends
ThresholdSweep == { Frac(tenths, 10) : tenths \in {0, 600, 601, 750, 751, 800, 801, 1000} }

InitSummary ==
    /\ summary_scores \in [pace_score : ThresholdSweep,
                           confidence_score : ThresholdSweep,
                           tone_score : ThresholdSweep]
    /\ summary_call = NoCall

\* no scores are summarised on their own
IdleSummary ==
    /\ summary_scores = [pace_score |-> Num(0), confidence_score |-> Num(0),
                         tone_score |-> Num(0)]
    /\ summary_call = NoCall

\* a caller summarises the scores
GenerateSimpleSummary ==
    /\ summary_call' =
          [fn |-> "generate_simple_summary",
           scores |-> summary_scores,
           summary |-> generate_simple_summary(summary_scores.pace_score,
                                               summary_scores.confidence_score,
                                               summary_scores.tone_score)]
    /\ UNCHANGED <<summary_scores, notSum>>

(***************************************************************************)
(* tasks.py: the performance analysis of create_question_task              *)
(***************************************************************************)

\* a str as the sequence of its characters
Chars(text) == [i \in 1..Len(text) |-> CharAt(text, i)]

\* a turn of an interview loop as calculate_performance_score reads it
AsEntry(turn) == [turn EXCEPT !.answer = Chars(@)]

\* the history of an interview loop as calculate_performance_score reads it
AsEntries(h) == [k \in DOMAIN h |-> AsEntry(h[k])]

\* performance_scores, focus_areas and the text after "Performance
\* Analysis:" for a history that is not empty
PerformanceAnalysis(title, h) ==
    LET performance_scores == calculate_performance_score(AsEntries(h))
        focus_areas == identify_focus_areas(performance_scores, title)
    IN  [performance_scores |-> performance_scores,
         focus_areas |-> focus_areas,
         context |-> get_adaptive_question_context(performance_scores,
                                                   focus_areas)]

\* JOB_TITLE of frontend.py and job_titles[5] of main.py
JOB_TITLE == ContentCreator

(***************************************************************************)
(* adaptive_interviewer.py: the difficulty tier and the context of one     *)
(* snapshot                                                                *)
(***************************************************************************)

\* overall on and next to every threshold of the tiers (40, 60, 80) and of
\* the context (50, 75), with weak and strong communication, and snapshots
\* lacking keys
TierSweep ==
    { Snapshot(o, c, T(70), T(70), T(70)) :
        o \in {0, T(40), 401, T(50), 501, T(60), 601, T(75), 751, T(80), 801,
               T(100)},
        c \in {T(40), T(90)} }
    \cup PartialSnapshots

\* a caller asks for the difficulty tier of a snapshot; the latest call is kept
AdaptDifficulty ==
    /\ \E ps \in TierSweep, num \in 1..MaxQuestionNum :
          difficulty_calls' =
              <<[performance_scores |-> ps, current_question_num |-> num,
                 difficulty |-> determine_difficulty_adjustment(ps, num)]>>
    /\ UNCHANGED notDiff

\* a caller renders the context of a snapshot and its focus areas; the
\* latest call is kept
AdaptContext ==
    /\ \E ps \in TierSweep :
          LET focus_areas == identify_focus_areas(ps, job_title)
          IN  context_calls' =
                  <<[performance_scores |-> ps, focus_areas |-> focus_areas,
                     context |-> get_adaptive_question_context(ps, focus_areas)]>>
    /\ UNCHANGED notCtx

---------------------------------------------------------------------------
(* Specifications *)

Init ==
    /\ InitAgg /\ InitDifficulty /\ job_title = <<>> /\ focus_calls = <<>>
    /\ IdleExtract /\ InitContext /\ IdleSession /\ IdlePace
    /\ IdleSummary

Next ==
    \/ AppendTurn
    \/ CalcPerformance

\* the aggregator: histories grow turn by turn and are scored at any time
Spec == Init /\ [][Next]_vars

InitD ==
    /\ InitAgg /\ InitDifficulty /\ job_title = <<>> /\ focus_calls = <<>>
    /\ IdleExtract /\ InitContext /\ IdleSession /\ IdlePace
    /\ IdleSummary

NextD == DetermineDifficulty

\* determine_difficulty_adjustment applied to every snapshot and question number
SpecDifficulty == InitD /\ [][NextD]_vars

InitF ==
    /\ InitAgg /\ InitDifficulty /\ InitFocus /\ IdleExtract /\ InitContext
    /\ IdleSession /\ IdlePace
    /\ IdleSummary

NextF == IdentifyFocusAreas

\* identify_focus_areas applied to every snapshot, for each job title
SpecFocus == InitF /\ [][NextF]_vars

InitE ==
    /\ InitAgg /\ InitDifficulty /\ job_title = <<>> /\ focus_calls = <<>>
    /\ InitExtract /\ InitContext /\ IdleSession /\ IdlePace
    /\ IdleSummary

NextE ==
    \/ AnalyzeAudioMetrics
    \/ AnalyzeAudioSimple

\* the two extractors applied to every file and transcript, with and
\* without librosa installed
SpecExtract == InitE /\ [][NextE]_vars

InitC == InitF

NextC == GetAdaptiveQuestionContext

\* get_adaptive_question_context applied to every snapshot and the focus
\* areas derived from it, for each job title
SpecContext == InitC /\ [][NextC]_vars

InitS ==
    /\ InitAgg /\ InitDifficulty /\ job_title = <<>> /\ focus_calls = <<>>
    /\ IdleExtract /\ InitContext /\ InitSession /\ IdlePace
    /\ IdleSummary

NextS ==
    \/ CliBegin
    \/ CliQuestion
    \/ CliAnswer
    \/ CliEvaluate
    \/ ClickStartInterview
    \/ ClickRestartInterview
    \/ ClickUseFallback
    \/ ClickTryWebrtc
    \/ ClickStartRecording
    \/ ClickStopAndSubmit
    \/ UploadFile
    \/ RemoveFile
    \/ RerunScript
    \/ AddFrame

\* an interview session: the command-line loop, or the Streamlit page
\* under every sequence of clicks, uploads and service failures
SpecSession == InitS /\ [][NextS]_vars

InitP ==
    /\ InitAgg /\ InitDifficulty /\ job_title = <<>> /\ focus_calls = <<>>
    /\ IdleExtract /\ InitContext /\ IdleSession /\ InitPace
    /\ IdleSummary

NextP == CalculatePaceScore

\* calculate_pace_score applied to every speaking rate up to the bound
SpecPace == InitP /\ [][NextP]_vars

InitG ==
    /\ InitAgg /\ InitDifficulty /\ job_title = <<>> /\ focus_calls = <<>>
    /\ IdleExtract /\ InitContext /\ IdleSession /\ IdlePace
    /\ InitSummary

NextG == GenerateSimpleSummary

\* generate_simple_summary applied to scores on and around every threshold
SpecSummary == InitG /\ [][NextG]_vars

InitA == InitF

NextA ==
    \/ AdaptDifficulty
    \/ AdaptContext

\* the difficulty tier and the context derived from the same snapshots, for
\* each job title
SpecAdapt == InitA /\ [][NextA]_vars


---------------------------------------------------------------------------
(* Claims about calculate_performance_score (specification Spec) *)

\* the calls on record
CallsMade == {calls[i] : i \in DOMAIN calls}

\* a turn carries a non-empty audio_metrics record
HasMetrics(turn) ==
    "audio_metrics" \in DOMAIN turn /\ DOMAIN turn.audio_metrics # {}

\* a turn's audio_metrics carries an error
ErrorTagged(turn) ==
    /\ HasMetrics(turn)
    /\ "error" \in DOMAIN turn.audio_metrics
    /\ turn.audio_metrics.error # ""

\* the turns whose audio metrics are present and not error-tagged
ValidTurns(h) == {i \in DOMAIN h : HasMetrics(h[i]) /\ ~ ErrorTagged(h[i])}

RECURSIVE TotalOver(_, _, _)
\* the total of one score over the turns idx of h, an absent score counting 0
TotalOver(h, idx, key) ==
    IF idx = {} THEN 0
    ELSE LET i == CHOOSE j \in idx : TRUE
         IN  (IF key \in DOMAIN h[i].audio_metrics THEN h[i].audio_metrics[key] ELSE 0)
             + TotalOver(h, idx \ {i}, key)

\* the mean of one score over the valid turns, to one decimal; 50 without any
MeanOfValid(h, key) ==
    IF ValidTurns(h) = {} THEN T(50)
    ELSE RoundTenths(TotalOver(h, ValidTurns(h), key), Cardinality(ValidTurns(h)))

\* C1: error-tagged metrics are excluded from the pace, confidence and tone
\* averages, not counted as 0: each average is the mean over only the turns
\* whose audio_metrics is present and not error-tagged.
C1_ErrorTaggedExcluded ==
    \A c \in CallsMade :
        c.history # <<>> =>
            /\ c.scores.pace = MeanOfValid(c.history, "pace_score")
            /\ c.scores.confidence = MeanOfValid(c.history, "confidence_score")
            /\ c.scores.tone = MeanOfValid(c.history, "tone_score")

\* C1 witness: one error-tagged turn plus one valid turn with pace_score 80
\* has been scored, and pace is 80
C1_Witness ==
    \E c \in CallsMade :
        /\ Len(c.history) = 2
        /\ ErrorTagged(c.history[1])
        /\ Get(c.history[1].audio_metrics, "pace_score", 0) = 0
        /\ c.history[2] = [audio_metrics |-> Metrics(T(80), T(60), T(100))]
        /\ c.scores.pace = T(80)

\* every score a turn carries lies in [0,100]
ScoresInRange(h) ==
    \A i \in DOMAIN h :
        "audio_metrics" \in DOMAIN h[i] =>
            \A key \in {"pace_score", "confidence_score", "tone_score"} :
                key \in DOMAIN h[i].audio_metrics =>
                    h[i].audio_metrics[key] \in 0..T(100)

SixKeys == {"overall", "communication", "technical", "confidence", "pace", "tone"}

\* C2: for a non-empty history whose per-turn scores lie in [0,100], each of
\* the six returned scores lies in [0,100].
C2_ScoresWithinRange ==
    \A c \in CallsMade :
        (c.history # <<>> /\ ScoresInRange(c.history)) =>
            \A key \in SixKeys : c.scores[key] \in 0..T(100)

\* C2 witness: a scored non-empty history whose averages are the largest the
\* inputs allow (pace 100, technical 85, overall 91)
C2_Witness ==
    \E c \in CallsMade :
        /\ c.history # <<>>
        /\ ScoresInRange(c.history)
        /\ c.scores.pace = T(100)
        /\ c.scores.technical = T(85)
        /\ c.scores.overall = T(91)

\* C3: the result always includes all six named keys, for every history
\* including the empty one.
C3_AlwaysSixKeys ==
    \A c \in CallsMade : SixKeys \subseteq DOMAIN c.scores

\* C4: for an empty history the four top-level scores overall,
\* communication, technical and confidence are 0.
C4_EmptyHistoryZero ==
    \A c \in CallsMade :
        c.history = <<>> =>
            \A key \in {"overall", "communication", "technical", "confidence"} :
                key \in DOMAIN c.scores /\ c.scores[key] = 0

\* C4 witness: the empty history has been scored
C4_Witness == \E c \in CallsMade : c.history = <<>>

\* the word count of a turn's answer, none counting as 0 words
WordsOf(turn) == IF "answer" \in DOMAIN turn THEN WordCount(turn.answer) ELSE 0

\* the content score of a turn by the word-count ladder
ContentOf(turn) ==
    CASE WordsOf(turn) > 50 -> T(85)
      [] WordsOf(turn) > 20 /\ WordsOf(turn) <= 50 -> T(70)
      [] WordsOf(turn) > 5 /\ WordsOf(turn) <= 20 -> T(50)
      [] OTHER -> T(20)

RECURSIVE TotalContent(_)
TotalContent(h) == IF h = <<>> THEN 0 ELSE ContentOf(Head(h)) + TotalContent(Tail(h))

\* C5 as stated: for a non-empty history whose audio metrics are all missing
\* or error-tagged, every one of the six scores is the default 50.
C5_AllDefaultFifty ==
    \A c \in CallsMade :
        (c.history # <<>> /\ ValidTurns(c.history) = {}) =>
            \A key \in SixKeys : c.scores[key] = T(50)

\* C5 amended: for such a history communication, confidence, pace and tone
\* are the default 50, technical is the mean content score of the answers
\* and overall is 0.4 * 50 + 0.6 * that mean, each to one decimal.
C5_AudioDefaultsOnly ==
    \A c \in CallsMade :
        (c.history # <<>> /\ ValidTurns(c.history) = {}) =>
            /\ \A key \in {"communication", "confidence", "pace", "tone"} :
                  c.scores[key] = T(50)
            /\ c.scores.technical = RoundTenths(TotalContent(c.history), Len(c.history))
            /\ c.scores.overall =
                  RoundTenths(T(20) * 10 * Len(c.history) + 6 * TotalContent(c.history),
                              10 * Len(c.history))

\* C5 witness: a history of an error-tagged turn and a turn without metrics
\* has been scored, and technical is not 50
C5_Witness ==
    \E c \in CallsMade :
        /\ Len(c.history) = 2
        /\ ValidTurns(c.history) = {}
        /\ ErrorTagged(c.history[1])
        /\ ~ HasMetrics(c.history[2])
        /\ c.scores.technical # T(50)
        /\ c.scores.communication = T(50)

---------------------------------------------------------------------------
(* Claims about determine_difficulty_adjustment (specification SpecDifficulty) *)

DifficultyCallsMade == {difficulty_calls[i] : i \in DOMAIN difficulty_calls}

\* C6: the tier is moderate whenever the question index is <= 2, for every
\* snapshot, an empty or all-zero one included.
C6_WarmUpModerate ==
    \A c \in DifficultyCallsMade :
        c.current_question_num <= 2 => c.difficulty = "moderate"

\* C6 witness: an all-zero snapshot and an empty one have been rated in the
\* warm-up, and both got moderate
C6_Witness ==
    /\ Len(difficulty_calls) = 2
    /\ difficulty_calls[1].performance_scores = Snapshot(0, 0, 0, 0, 0)
    /\ difficulty_calls[1].current_question_num = 2
    /\ difficulty_calls[2].performance_scores = EmptyDict
    /\ difficulty_calls[2].current_question_num = 1
    /\ difficulty_calls[1].difficulty = "moderate"
    /\ difficulty_calls[2].difficulty = "moderate"

\* the order of the tiers: supportive < easier < moderate < harder
TierRank(tier) ==
    CASE tier = "supportive" -> 1
      [] tier = "easier" -> 2
      [] tier = "moderate" -> 3
      [] tier = "harder" -> 4
      [] OTHER -> 0

\* the calls past the warm-up whose snapshot carries overall
RatedCalls ==
    {c \in DifficultyCallsMade :
        c.current_question_num > 2 /\ "overall" \in DOMAIN c.performance_scores}

\* C7: for question index > 2 the tier is harder for overall > 80, moderate
\* for 60 < overall <= 80, easier for 40 < overall <= 60 and supportive for
\* overall <= 40; so the tier never decreases as overall grows, and no other
\* value is returned.
C7_TierByOverall ==
    /\ \A c \in DifficultyCallsMade :
          c.difficulty \in {"supportive", "easier", "moderate", "harder"}
    /\ \A c \in RatedCalls :
          LET overall == c.performance_scores.overall
          IN  /\ overall > T(80) => c.difficulty = "harder"
              /\ (T(60) < overall /\ overall <= T(80)) => c.difficulty = "moderate"
              /\ (T(40) < overall /\ overall <= T(60)) => c.difficulty = "easier"
              /\ overall <= T(40) => c.difficulty = "supportive"
    /\ \A c1, c2 \in RatedCalls :
          c1.performance_scores.overall <= c2.performance_scores.overall
              => TierRank(c1.difficulty) <= TierRank(c2.difficulty)

\* C7 witness: past the warm-up, overall exactly 80 was rated moderate and
\* overall 80.1 harder
C7_Witness ==
    /\ Len(difficulty_calls) = 2
    /\ difficulty_calls[1].current_question_num = 3
    /\ difficulty_calls[2].current_question_num = 3
    /\ difficulty_calls[1].performance_scores = Snapshot(T(80), T(70), T(70), T(70), T(70))
    /\ difficulty_calls[2].performance_scores = Snapshot(801, T(70), T(70), T(70), T(70))
    /\ difficulty_calls[1].difficulty = "moderate"
    /\ difficulty_calls[2].difficulty = "harder"

---------------------------------------------------------------------------
(* Claims about identify_focus_areas (specification SpecFocus) *)

FocusCallsMade == {focus_calls[i] : i \in DOMAIN focus_calls}

\* the titles of Titles that contain "engineer" or "developer", whatever the case
TechnicalTitles == {SeniorEngineer, WebDeveloper, EngineeringManager, AIEngineer}

\* the titles of Titles that contain "manager", whatever the case
ManagerTitles == {SalesManager, EngineeringManager, ProductManager}

\* a snapshot's score, 50 when the snapshot lacks it
ScoreOr50(ps, key) == IF key \in DOMAIN ps THEN ps[key] ELSE T(50)

\* whether a tag's condition holds
TagDue(tag, ps, title) ==
    CASE tag = "communication_skills" -> ScoreOr50(ps, "communication") < T(60)
      [] tag = "confidence_building" -> ScoreOr50(ps, "confidence") < T(50)
      [] tag = "pacing" -> ScoreOr50(ps, "pace") < T(40)
      [] tag = "technical_depth" ->
            ScoreOr50(ps, "technical") < T(60) /\ title \in TechnicalTitles
      [] tag = "leadership" -> title \in ManagerTitles

FocusOrder ==
    <<"communication_skills", "confidence_building", "pacing",
      "technical_depth", "leadership">>

\* the tags whose condition holds, in the fixed order
DueTags(ps, title) ==
    LET Due(tag) == TagDue(tag, ps, title)
    IN  SelectSeq(FocusOrder, Due)

\* C8: the result is exactly the tags whose condition holds, without
\* duplicates, in the fixed order; "Senior Engineer" with communication 55
\* and technical 55 yields both communication_skills and technical_depth.
C8_FocusAreasExact ==
    \A c \in FocusCallsMade :
        /\ c.focus_areas = DueTags(c.performance_scores, c.job_title)
        /\ \A i, j \in DOMAIN c.focus_areas :
              c.focus_areas[i] = c.focus_areas[j] => i = j
        /\ (/\ c.job_title = SeniorEngineer
            /\ ScoreOr50(c.performance_scores, "communication") = T(55)
            /\ ScoreOr50(c.performance_scores, "technical") = T(55))
           => \E i, j \in DOMAIN c.focus_areas :
                 /\ c.focus_areas[i] = "communication_skills"
                 /\ c.focus_areas[j] = "technical_depth"

\* C8 witness: "Senior Engineer" with every score at 55 got
\* communication_skills and technical_depth, in that order and nothing else
C8_Witness ==
    \E c \in FocusCallsMade :
        /\ c.job_title = SeniorEngineer
        /\ c.performance_scores = Snapshot(T(55), T(55), T(55), T(55), T(55))
        /\ c.focus_areas = <<"communication_skills", "technical_depth">>

HasLeadership(c) ==
    \E i \in DOMAIN c.focus_areas : c.focus_areas[i] = "leadership"

\* C9: leadership depends on the title alone: for two snapshots and the same
\* title it is in both results or in neither, and it is present exactly when
\* the lower-cased title contains "manager".
C9_LeadershipByTitleOnly ==
    /\ \A c1, c2 \in FocusCallsMade :
          c1.job_title = c2.job_title => (HasLeadership(c1) <=> HasLeadership(c2))
    /\ \A c \in FocusCallsMade :
          HasLeadership(c) <=> c.job_title \in ManagerTitles

\* C9 witness: "Sales Manager" got leadership with all scores at 90 and
\* again with all scores at 0
C9_Witness ==
    /\ Len(focus_calls) = 2
    /\ focus_calls[1].job_title = SalesManager
    /\ focus_calls[1].performance_scores = Snapshot(T(90), T(90), T(90), T(90), T(90))
    /\ focus_calls[2].performance_scores = Snapshot(0, 0, 0, 0, 0)
    /\ HasLeadership(focus_calls[1])
    /\ HasLeadership(focus_calls[2])


---------------------------------------------------------------------------
(* Claims about the extractors (specification SpecExtract) *)

\* an extractor call is on record
Extracted(fn) == extraction.fn = fn

\* the waveform analysis of a file fails: the file is missing, empty or
\* gone, or librosa raises
FullExtractionFails(file) ==
    \/ file.state \in {"missing", "empty", "vanishing"}
    \/ file.state = "present" /\ Raised(file.librosa)

\* C11: whenever the waveform analysis attempted by analyze_audio_metrics
\* fails (file missing, file empty, decoding or analysis raising), the call
\* makes exactly one call to analyze_audio_simple with its own transcript
\* and returns that call's result, and it never raises.
C11_FailureHandedToFallback ==
    (/\ Extracted("analyze_audio_metrics")
     /\ HAS_LIBROSA
     /\ FullExtractionFails(extraction.audio_path))
    => /\ ~Raised(extraction.outcome)
       /\ Len(extraction.simple_calls) = 1
       /\ extraction.simple_calls[1].transcript = extraction.transcript
       /\ extraction.outcome =
              analyze_audio_simple(extraction.simple_calls[1].audio_path,
                                   extraction.simple_calls[1].transcript)

\* the record the extractor call on record returned
Returned == extraction.outcome.returned

\* an extractor call on record returned a record
ReturnedRecord == ~Extracted("none") /\ ~Raised(extraction.outcome)

ScoreFields == {"pace_score", "confidence_score", "tone_score", "analysis_summary"}

ExtendedFields ==
    {"average_pitch", "pitch_range", "pitch_variation", "pause_ratio",
     "volume_consistency"}

\* C12: every record either extractor returns, on success and on every
\* failure path, carries pace_score, confidence_score, tone_score and
\* analysis_summary, and also either error or all the extended numeric
\* fields.
C12_RecordShape ==
    ReturnedRecord
    => /\ ScoreFields \subseteq DOMAIN Returned
       /\ \/ "error" \in DOMAIN Returned
          \/ ExtendedFields \subseteq DOMAIN Returned

\* analyze_audio_simple ran: called by the caller, or by analyze_audio_metrics
SimpleRan ==
    \/ Extracted("analyze_audio_simple")
    \/ Extracted("analyze_audio_metrics") /\ extraction.simple_calls # <<>>

\* the all-zero shape of a failure record
AllZero(record) ==
    /\ {"duration", "words_per_minute", "pace_score", "confidence_score",
        "tone_score", "analysis_summary"} \subseteq DOMAIN record
    /\ record.duration = 0
    /\ record.words_per_minute = 0
    /\ record.pace_score = 0
    /\ record.confidence_score = 0
    /\ record.tone_score = 0
    /\ record.analysis_summary = "Audio analysis failed"

\* C13: analyze_audio_simple never raises, and every record it returns with
\* error set has duration, words_per_minute and the three scores 0 and the
\* summary "Audio analysis failed".
C13_ErrorRecordAllZero ==
    SimpleRan
    => /\ ~Raised(extraction.outcome)
       /\ "error" \in DOMAIN Returned => AllZero(Returned)

\* the arguments analyze_audio_simple ran with
SimpleArgs ==
    IF Extracted("analyze_audio_simple")
    THEN [audio_path |-> extraction.audio_path,
          transcript |-> extraction.transcript]
    ELSE extraction.simple_calls[1]

\* C14: for a file that exists and is not empty, analyze_audio_simple with
\* an empty or None transcript returns a record without error whose
\* words_per_minute is 0, pace_score 30, confidence_score 30 and
\* tone_score 40, whatever the duration.
C14_EmptyTranscriptScores ==
    (/\ SimpleRan
     /\ SimpleArgs.audio_path.state = "present"
     /\ SimpleArgs.transcript \in {None, Str("")})
    => /\ ~Raised(extraction.outcome)
       /\ "error" \notin DOMAIN Returned
       /\ Returned.words_per_minute = 0
       /\ Returned.pace_score = T(30)
       /\ Returned.confidence_score = T(30)
       /\ Returned.tone_score = T(40)

\* a ten-second WAV without a transcript scores 30, 30 and 40
C14_Witness ==
    /\ Extracted("analyze_audio_simple")
    /\ extraction.transcript = None
    /\ extraction.audio_path.state = "present"
    /\ extraction.audio_path.wave = TenSeconds
    /\ Returned.duration = 1000
    /\ Returned.pace_score = T(30)
    /\ Returned.confidence_score = T(30)
    /\ Returned.tone_score = T(40)

\* C15: in every record either extractor returns, each of pace_score,
\* confidence_score and tone_score the record carries lies between 0 and
\* 100, for every speaking rate, energy, pitch deviation and transcript.
C15_ScoresBetween0And100 ==
    ReturnedRecord
    => \A field \in {"pace_score", "confidence_score", "tone_score"} :
          field \in DOMAIN Returned
          => Returned[field] >= 0 /\ Returned[field] <= T(100)

\* a pitch deviation of 1000 Hz is scored 0, not below
C15_Witness ==
    /\ Extracted("analyze_audio_metrics")
    /\ extraction.simple_calls = <<>>
    /\ "pitch_variation" \in DOMAIN Returned
    /\ Returned.pitch_variation = 100000
    /\ Returned.tone_score = 0
    /\ Returned.confidence_score = T(75)


---------------------------------------------------------------------------
(* Claims about get_adaptive_question_context (specification SpecContext) *)

ContextCallsMade == {context_calls[i] : i \in DOMAIN context_calls}

\* the overall band of a snapshot: above 75, above 50, or neither
OverallBand(performance_scores) ==
    LET overall == Get(performance_scores, "overall", T(50))
    IN  CASE overall > T(75) -> "very well"
          [] overall > T(50) /\ overall <= T(75) -> "adequately"
          [] overall <= T(50) -> "needs support"

\* the communication band of a snapshot: below 50, above 80, or neither
CommunicationBand(performance_scores) ==
    LET communication == Get(performance_scores, "communication", T(50))
    IN  CASE communication < T(50) -> "unclear"
          [] communication > T(80) -> "effective"
          [] communication >= T(50) /\ communication <= T(80) -> "plain"

\* C16: two calls whose snapshots lie in the same overall band and the same
\* communication band, with the same focus-area list, return the identical
\* context string.
C16_ContextDependsOnBandsOnly ==
    \A c1, c2 \in ContextCallsMade :
        (/\ OverallBand(c1.performance_scores) = OverallBand(c2.performance_scores)
         /\ CommunicationBand(c1.performance_scores)
                = CommunicationBand(c2.performance_scores)
         /\ c1.focus_areas = c2.focus_areas)
        => c1.context = c2.context

\* overall 75.1 with communication 65 and overall 100 with communication 80
\* yield one and the same text
C16_Witness ==
    /\ Len(context_calls) = 2
    /\ context_calls[1].performance_scores = Snapshot(751, T(65), T(70), T(70), T(70))
    /\ context_calls[2].performance_scores = Snapshot(T(100), T(80), T(70), T(70), T(70))
    /\ context_calls[1].focus_areas = context_calls[2].focus_areas
    /\ context_calls[1].context = context_calls[2].context

\* the sentence of each overall band
OverallSentence(band) ==
    CASE band = "very well" -> "The candidate is performing very well."
      [] band = "adequately" -> "The candidate is performing adequately."
      [] band = "needs support" -> "The candidate needs more support."

\* the text a call must return: the overall sentence, then the
\* communication sentence of its band if any, then the focus sentence if
\* the list is not empty, each after a blank
ExpectedContext(call) ==
    LET band == CommunicationBand(call.performance_scores)
    IN  OverallSentence(OverallBand(call.performance_scores))
            \o (IF band = "unclear" THEN " Their communication could be clearer."
                ELSE IF band = "effective" THEN " They communicate very effectively."
                ELSE "")
            \o (IF Len(call.focus_areas) > 0
                THEN " Focus on: " \o JoinWith(", ", call.focus_areas) \o "."
                ELSE "")

\* C17: the context is, in this order, exactly one overall-band sentence, at
\* most one communication sentence, and "Focus on: <areas joined by comma
\* and blank>." exactly when the focus list is not empty.
C17_ContextSentences ==
    \A call \in ContextCallsMade : call.context = ExpectedContext(call)

\* all three parts present, with two focus areas
C17_Witness ==
    \E call \in ContextCallsMade :
        /\ call.focus_areas = <<"communication_skills", "leadership">>
        /\ call.context =
              "The candidate is performing very well. Their communication "
              \o "could be clearer. Focus on: communication_skills, leadership."


---------------------------------------------------------------------------
(* Claims about the interview loops (specification SpecSession) *)

\* the history of the session the launched program runs
SessionHistory ==
    IF program = "main.py" THEN cli.interview_history
    ELSE session_state.interview_history

\* the question asked and not yet answered, Str("") if there is none
OpenQuestion ==
    IF program = "main.py"
    THEN IF cli.pc = "answer" THEN cli.question ELSE Str("")
    ELSE session_state.current_question

\* the first n turns of a history
FirstTurns(turns, n) == SubSeq(turns, 1, n)

\* every turn holds the question generated for its position from exactly
\* the turns before it, and so does the open question
InQuestionOrder ==
    /\ \A k \in DOMAIN SessionHistory :
          SessionHistory[k].question = Asked(k, FirstTurns(SessionHistory, k - 1))
    /\ OpenQuestion # Str("")
       => OpenQuestion = Asked(Len(SessionHistory) + 1, SessionHistory)

\* the session runs before and after the step
SessionRuns ==
    IF program = "main.py" THEN cli.pc # "idle" /\ cli'.pc # "idle"
    ELSE session_state.started /\ session_state'.started

\* the step leaves the history alone or appends one turn to it
AppendsAtMost ==
    \/ SessionHistory' = SessionHistory
    \/ /\ Len(SessionHistory') = Len(SessionHistory) + 1
       /\ FirstTurns(SessionHistory', Len(SessionHistory)) = SessionHistory

\* C18: within a session, on the command line and under Streamlit, the
\* k-th question is generated from a history holding exactly the k-1
\* earlier turns in order, the turn appended for it records that question,
\* and while the session runs a step only appends: no earlier turn is
\* modified, removed or reordered.
C18_TurnsInQuestionOrder ==
    /\ []InQuestionOrder
    /\ [][SessionRuns => AppendsAtMost]_vars

\* a Streamlit session with all five questions answered, by recording and
\* by upload, with and without a transcript
C18_Witness ==
    /\ program = "frontend.py"
    /\ session_state.started
    /\ Len(session_state.interview_history) = NUM_QUESTIONS
    /\ session_state.interview_history[1].answered_by = "human_recording"
    /\ session_state.interview_history[2].answered_by = "human_upload"
    /\ session_state.interview_history[4].answer = DetailedAnswer
    /\ session_state.interview_history[5].answer = "[audio saved: uploads/rec.wav]"
    /\ session_state.interview_history[5].question.history
          = FirstTurns(session_state.interview_history, 4)

\* the waveform analysis returned its record: the scores before rounding
Scored == Extracted("analyze_audio_metrics") /\ extraction.locals # None

\* C20: the tone score of the waveform analysis is 100 exactly when the
\* pitch deviation is 50 Hz, it is 0 for a deviation of 0 and for every
\* deviation of 100 Hz or more, and in between it is 100 less 2 points for
\* each Hz of distance from 50.
C20_ToneScoreShape ==
    Scored
    => LET pitch_variation == extraction.locals.pitch_variation
           tone_score == extraction.locals.tone_score
           distance == Abs(Sub(pitch_variation, Num(50)))
       IN  /\ tone_score = Num(100) <=> pitch_variation = Num(50)
           /\ (pitch_variation = Num(0) \/ LessEq(Num(100), pitch_variation))
              => tone_score = Num(0)
           /\ (Less(Num(0), pitch_variation) /\ Less(pitch_variation, Num(100)))
              => tone_score = Sub(Num(100), Mul(Num(2), distance))

\* a deviation of 37.5 Hz is scored 75
C20_Witness ==
    /\ Scored
    /\ extraction.locals.pitch_variation = Frac(75, 2)
    /\ extraction.locals.tone_score = Num(75)
    /\ Returned.tone_score = T(75)

\* calculate_pace_score has been called
PaceScored == pace_call.fn = "calculate_pace_score"

\* the band formula with centre score `base`, `span` points lost over
\* `width` words per minute of distance from 160
Band(base, span, width, wpm) ==
    Add(Num(base),
        Mul(Num(span), Sub(Num(1), Div(Abs(Sub(wpm, Num(160))), Num(width)))))

\* the bands of the pace ladder, in the listed order
PaceLadder ==
    <<[low |-> 140, high |-> 180, base |-> 90, span |-> 10, width |-> 20],
      [low |-> 100, high |-> 200, base |-> 70, span |-> 20, width |-> 40],
      [low |-> 80, high |-> 220, base |-> 50, span |-> 20, width |-> 60]>>

\* the bands a speaking rate lies in
Matching(wpm) ==
    { b \in 1..Len(PaceLadder) :
        /\ LessEq(Num(PaceLadder[b].low), wpm)
        /\ LessEq(wpm, Num(PaceLadder[b].high)) }

\* the first matching band's score, or the floor formula when none matches
FirstMatch(wpm) ==
    IF wpm = Num(0) THEN Num(30)
    ELSE IF Matching(wpm) = {}
         THEN LET tail == Sub(Num(50), Div(Abs(Sub(wpm, Num(160))), Num(4)))
              IN  IF Less(tail, Num(20)) THEN Num(20) ELSE tail
         ELSE LET b == CHOOSE first \in Matching(wpm) :
                           \A other \in Matching(wpm) : first <= other
              IN  Band(PaceLadder[b].base, PaceLadder[b].span,
                       PaceLadder[b].width, wpm)

\* C19: calculate_pace_score returns 30 for a rate of 0, else the score of
\* the first band of 140..180, 100..200, 80..220 that holds the rate, else
\* max(20, 50 - |wpm - 160| / 4); it returns 100 at 160 and 30 at 0.
C19_PaceLadderFirstMatch ==
    PaceScored
    => /\ pace_call.result = FirstMatch(pace_call.wpm)
       /\ pace_call.wpm = Num(160) => pace_call.result = Num(100)
       /\ pace_call.wpm = Num(0) => pace_call.result = Num(30)

\* 150 words per minute lies in all three bands and is scored by the first: 95
C19_Witness ==
    /\ PaceScored
    /\ pace_call.wpm = Num(150)
    /\ Cardinality(Matching(pace_call.wpm)) = 3
    /\ pace_call.result = Num(95)

\* the total of the three audio scores over the valid turns of h
AudioTotal(h) ==
    TotalOver(h, ValidTurns(h), "pace_score")
    + TotalOver(h, ValidTurns(h), "confidence_score")
    + TotalOver(h, ValidTurns(h), "tone_score")

OfFullPath == "pause_ratio" \in DOMAIN Returned

\* a reported score, in points
Reported(field) == Frac(Returned[field], 10)

\* the phrase table of the extractor that made the record, applied to the
\* scores and the pause ratio the record reports
SummaryOfReported ==
    IF OfFullPath
    THEN generate_analysis_summary(Reported("pace_score"),
                                   Reported("confidence_score"),
                                   Reported("tone_score"),
                                   Frac(Returned.pause_ratio, 1000))
    ELSE generate_simple_summary(Reported("pace_score"),
                                 Reported("confidence_score"),
                                 Reported("tone_score"))

\* C22 as stated: for every record either extractor returns, the summary
\* equals the phrase table applied to the pace, confidence and tone scores
\* (and the pause ratio on the full path) the record reports.
C22_SummaryOfReportedScores ==
    ReturnedRecord
    => /\ ScoreFields \subseteq DOMAIN Returned
       /\ Returned.analysis_summary = SummaryOfReported

\* the phrase for a score x: `high` above `upper`, `middle` above 60,
\* else `low`
Phrase(x, upper, high, middle, low) ==
    CASE Less(Num(upper), x) -> high
      [] LessEq(x, Num(upper)) /\ Less(Num(60), x) -> middle
      [] OTHER -> low

\* the summary of the waveform analysis for unrounded scores
FullSummary(v) ==
    LET pace == IF LessEq(v.pace_score, Num(60)) /\ Less(Num(40), v.pace_score)
                THEN "Consider adjusting your speaking speed"
                ELSE Phrase(v.pace_score, 80, "Great speaking pace",
                            "Good speaking pace",
                            "Speaking pace needs improvement")
        confidence == Phrase(v.confidence_score, 80, "confident delivery",
                             "fairly confident",
                             "work on speaking with more confidence")
        pauses == CASE Less(Frac(3, 10), v.pause_ratio) ->
                           ", reduce excessive pauses"
                    [] Less(v.pause_ratio, Frac(1, 20)) ->
                           ", add strategic pauses for clarity"
                    [] OTHER -> ""
    IN  pace \o ", " \o confidence \o pauses \o "."

\* the summary of the fallback analysis for unrounded scores
SimpleSummary(v) ==
    LET tone == Phrase(v.tone_score, 75, ", professional tone", ", good tone", "")
    IN  Phrase(v.pace_score, 80, "excellent pacing", "good pacing",
               "work on pacing")
        \o ", "
        \o Phrase(v.confidence_score, 75, "confident delivery",
                  "fairly confident", "build more confidence")
        \o tone \o "."

\* C22 amended: the summary is the phrase table applied to the scores of
\* the same call before they are rounded for the record (pace, confidence
\* and the pause ratio on the full path; pace, confidence and tone on the
\* fallback); the all-zero failure record carries "Audio analysis failed"
\* and a record of nothing but an error carries no summary.
C22_SummaryOfComputedScores ==
    ReturnedRecord
    => IF extraction.locals # None
       THEN Returned.analysis_summary = FullSummary(extraction.locals)
       ELSE IF extraction.simple_locals # None
       THEN Returned.analysis_summary = SimpleSummary(extraction.simple_locals)
       ELSE IF DOMAIN Returned = {"error"}
       THEN TRUE
       ELSE Returned.analysis_summary = "Audio analysis failed"

\* a pace of 80.04 is reported as 80.0 and summarised as above 80
C22_Witness ==
    /\ ReturnedRecord
    /\ extraction.locals # None
    /\ extraction.locals.pace_score = Frac(2001, 25)
    /\ Returned.pace_score = T(80)
    /\ Returned.pause_ratio = 300
    /\ Returned.analysis_summary
          = "Great speaking pace, fairly confident, reduce excessive pauses."

\* generate_simple_summary has been called
Summarised == summary_call.fn = "generate_simple_summary"

\* the summary on record names the phrase
Says(phrase) == StrContains(summary_call.summary, phrase)

\* of the three phrases of a metric the summary names the high one when
\* the score x is above `upper`, the middle one when above 60, else the low one
Picks(x, upper, high, middle, low) ==
    /\ Says(high) <=> Less(Num(upper), x)
    /\ Says(middle) <=> (Less(Num(60), x) /\ LessEq(x, Num(upper)))
    /\ Says(low) <=> LessEq(x, Num(60))

\* C23 as stated: for each of pace, confidence and tone the summary names
\* the high phrase when the score is above 80, the middle phrase when above
\* 60, and a low phrase otherwise.
C23_SameThresholds ==
    Summarised
    => /\ Picks(summary_call.scores.pace_score, 80,
                "excellent pacing", "good pacing", "work on pacing")
       /\ Picks(summary_call.scores.confidence_score, 80,
                "confident delivery", "fairly confident", "build more confidence")
       /\ Says("professional tone")
             <=> Less(Num(80), summary_call.scores.tone_score)
       /\ Says("good tone")
             <=> (/\ Less(Num(60), summary_call.scores.tone_score)
                  /\ LessEq(summary_call.scores.tone_score, Num(80)))
       /\ LessEq(summary_call.scores.tone_score, Num(60)) => Says("tone")

\* C23 amended: pace is phrased by the thresholds 80 and 60, confidence and
\* tone by 75 and 60, and a tone score of 60 or less adds no phrase at all:
\* the summary then ends after the confidence phrase.
C23_ThresholdsPerMetric ==
    Summarised
    => /\ Picks(summary_call.scores.pace_score, 80,
                "excellent pacing", "good pacing", "work on pacing")
       /\ Picks(summary_call.scores.confidence_score, 75,
                "confident delivery", "fairly confident", "build more confidence")
       /\ Says("professional tone")
             <=> Less(Num(75), summary_call.scores.tone_score)
       /\ Says("good tone")
             <=> (/\ Less(Num(60), summary_call.scores.tone_score)
                  /\ LessEq(summary_call.scores.tone_score, Num(75)))
       /\ Says("tone") <=> Less(Num(60), summary_call.scores.tone_score)

\* a confidence of 80 is phrased as high, and a tone of 60 is not phrased
C23_Witness ==
    /\ Summarised
    /\ summary_call.scores = [pace_score |-> Num(80), confidence_score |-> Num(80),
                              tone_score |-> Num(60)]
    /\ summary_call.summary = "good pacing, confident delivery."

\* analyze_audio_simple scored its file: its locals are on record
SimpleScored == ReturnedRecord /\ extraction.simple_locals # None

\* the words of a text: the places where a run of non-blank characters ends
WordEnds(text) ==
    {i \in 1..Len(text) :
        CharAt(text, i) # " " /\ (i = Len(text) \/ CharAt(text, i + 1) = " ")}

\* the places where one of the fillers occurs in a lower-case text
FillerPlaces(text) ==
    {<<w, i>> \in {"um", "uh", "like", "you know", "sort of", "kind of"}
                  \X (1..Len(text)) :
        i + Len(w) - 1 <= Len(text) /\ SubSeq(text, i, i + Len(w) - 1) = w}

\* one of the positive-sentiment words occurs in a lower-case text
HasPositive(text) ==
    \E w \in {"excited", "passionate", "confident", "experienced", "skilled",
              "accomplished"} : StrContains(text, w)

\* the confidence ladder for a transcript that is not empty
ConfidenceLadder(text) ==
    LET word_count == Cardinality(WordEnds(text))
        occurrences == Cardinality(FillerPlaces(StrLower(text)))
        length == CASE word_count > 30 -> 20
                    [] word_count > 15 /\ word_count <= 30 -> 10
                    [] word_count < 5 -> -20
                    [] OTHER -> 0
        fillers == CASE 10 * occurrences > word_count -> -15
                     [] 10 * occurrences <= word_count
                        /\ 20 * occurrences > word_count -> -8
                     [] OTHER -> 0
        positive == IF HasPositive(StrLower(text)) THEN 10 ELSE 0
    IN  50 + length + fillers + positive

\* C24: the fallback confidence_score is 30 when the transcript is empty or
\* the duration is 0; otherwise it is 50, +20 above 30 words else +10 above
\* 15 else -20 below 5, then -15 when the filler occurrences exceed 10% of
\* the words else -8 when they exceed 5%, then +10 when a positive word
\* appears, clamped to [10, 100].
C24_FallbackConfidence ==
    SimpleScored
    => LET said == SimpleArgs.transcript
           confidence_score == extraction.simple_locals.confidence_score
       IN  IF said \in {None, Str("")} \/ extraction.simple_locals.duration = Num(0)
           THEN confidence_score = Num(30)
           ELSE /\ confidence_score = Max(Num(10), Min(Num(100), Num(ConfidenceLadder(said.str))))
                /\ LessEq(Num(10), confidence_score)
                /\ LessEq(confidence_score, Num(100))

\* eleven words with one filler: 50 - 8 = 42
C24_Witness ==
    /\ SimpleScored
    /\ SimpleArgs.transcript
          = Str("um we shipped the app to every store in the spring season")
    /\ extraction.simple_locals.duration = Num(10)
    /\ extraction.simple_locals.confidence_score = Num(42)
    /\ Returned.confidence_score = T(42)

\* the Streamlit page is the program running
OnStreamlit == program = "frontend.py"

\* C25: in the Streamlit loop question_index equals the number of turns in
\* interview_history and never exceeds NUM_QUESTIONS, in every state reached
\* by starts, restarts, recorder toggles, submissions and reruns.
C25_IndexCountsTurns ==
    OnStreamlit
    => /\ session_state.question_index = Len(session_state.interview_history)
       /\ session_state.question_index <= NUM_QUESTIONS

\* all NUM_QUESTIONS questions were answered through the fallback uploader,
\* the first of them by a recording
C25_Witness ==
    /\ OnStreamlit
    /\ session_state.question_index = NUM_QUESTIONS
    /\ Len(session_state.interview_history) = NUM_QUESTIONS
    /\ session_state.webrtc_fallback_mode
    /\ session_state.interview_history[1].answered_by = "human_recording"
    /\ session_state.interview_history[NUM_QUESTIONS].answered_by = "human_upload"

\* an evaluation on record is the one requested for the history held, which
\* has NUM_QUESTIONS turns, and the session it was requested in is finished
EvaluationOfFullHistory ==
    (OnStreamlit /\ session_state.evaluation # None)
    => /\ session_state.evaluation = Evaluated(session_state.interview_history)
       /\ Len(session_state.interview_history) = NUM_QUESTIONS
       /\ session_state.finished

\* a started session at rest is finished or shows a question to answer:
\* no failure leaves it without either
NeverStuck ==
    (OnStreamlit /\ session_state.started /\ ~rerun /\ ~session_state.finished)
    => /\ session_state.question_index < NUM_QUESTIONS
       /\ session_state.current_question # Str("")

\* the step is "Start Interview" resetting the session
StartResets == ~session_state.started /\ session_state'.started

\* the step leaves the outcome of the session as it is
OutcomeKept ==
    /\ session_state'.finished
    /\ session_state'.interview_history = session_state.interview_history
    /\ session_state'.current_question = session_state.current_question
    /\ session_state'.evaluation = session_state.evaluation
    /\ session_state'.last_error = session_state.last_error

\* the step requests an evaluation, which succeeds or fails
RequestsEvaluation ==
    /\ ~session_state.finished /\ session_state'.finished
    /\ \/ session_state'.evaluation # None
       \/ session_state.current_question = Str("")
          /\ session_state.question_index >= NUM_QUESTIONS

\* C26: in the Streamlit loop the evaluation is requested only for a
\* history of exactly NUM_QUESTIONS turns and once per started session;
\* once finished, no turn is appended, no question generated and no
\* evaluation requested until "Start Interview" resets the session; and a
\* question or evaluation failure finishes the session instead of leaving
\* it with neither a question nor a result.
C26_EvaluatedOnceThenFinished ==
    /\ [](EvaluationOfFullHistory /\ NeverStuck)
    /\ [][(OnStreamlit /\ RequestsEvaluation)
          => Len(session_state.interview_history) = NUM_QUESTIONS]_vars
    /\ [][(OnStreamlit /\ session_state.finished /\ ~StartResets)
          => OutcomeKept]_vars

\* an interview of NUM_QUESTIONS answers whose evaluation failed is finished
C26_Witness ==
    /\ OnStreamlit
    /\ session_state.finished
    /\ session_state.started
    /\ Len(session_state.interview_history) = NUM_QUESTIONS
    /\ session_state.evaluation = None
    /\ session_state.last_error = Traceback

\* the number of detailed answers in a history
Detailed(h) == Cardinality({k \in DOMAIN h : h[k].answer = DetailedAnswer})

\* C27: in the command-line and Streamlit loops no turn carries
\* audio_metrics, so for every question after the first communication,
\* confidence, pace and tone are exactly 50 and overall is
\* 20 + 0.6 * technical, at most 71; the context never says the candidate is
\* performing very well and communication_skills is always a focus area.
\* (Every history a question is generated from is the history held in the
\* state the question is generated in.)
C27_LoopsScoreWithoutAudio ==
    /\ \A k \in DOMAIN SessionHistory :
          "audio_metrics" \notin DOMAIN SessionHistory[k]
    /\ SessionHistory # <<>>
       => LET h == SessionHistory
              analysis == PerformanceAnalysis(JOB_TITLE, h)
              scores == analysis.performance_scores
              \* the mean content score: 85 for a detailed answer, else 20
              content == T(85) * Detailed(h) + T(20) * (Len(h) - Detailed(h))
          IN  /\ \A key \in {"communication", "confidence", "pace", "tone"} :
                    scores[key] = T(50)
              /\ scores.overall = RoundTenths(T(20) * 10 * Len(h) + 6 * content,
                                             10 * Len(h))
              /\ scores.overall <= T(71)
              /\ ~StrContains(analysis.context, "performing very well")
              /\ \E i \in DOMAIN analysis.focus_areas :
                    analysis.focus_areas[i] = "communication_skills"
              /\ StrContains(analysis.context, "communication_skills")

\* a Streamlit history of NUM_QUESTIONS detailed answers: overall is 71, the
\* most the loops can reach
C27_Witness ==
    /\ OnStreamlit
    /\ Len(SessionHistory) = NUM_QUESTIONS
    /\ Detailed(SessionHistory) = NUM_QUESTIONS
    /\ PerformanceAnalysis(JOB_TITLE, SessionHistory).performance_scores.overall = T(71)
    /\ PerformanceAnalysis(JOB_TITLE, SessionHistory).context
          = "The candidate is performing adequately. Focus on: communication_skills."

\* a text begins with a sentence
BeginsWith(text, sentence) ==
    Len(text) >= Len(sentence) /\ SubSeq(text, 1, Len(sentence)) = sentence

\* the difficulty call and the context call on record are for one snapshot
SameSnapshot ==
    /\ difficulty_calls # <<>>
    /\ context_calls # <<>>
    /\ difficulty_calls[1].performance_scores = context_calls[1].performance_scores

\* C28: for the same snapshot and a question number above 2, the tier
\* "harder" implies the context begins "The candidate is performing very
\* well." and the tier "supportive" implies it begins "The candidate needs
\* more support."
C28_TierAgreesWithContext ==
    (SameSnapshot /\ difficulty_calls[1].current_question_num > 2)
    => /\ difficulty_calls[1].difficulty = "harder"
          => BeginsWith(context_calls[1].context,
                        "The candidate is performing very well.")
       /\ difficulty_calls[1].difficulty = "supportive"
          => BeginsWith(context_calls[1].context,
                        "The candidate needs more support.")

\* overall 80.1 at question 3: harder, and performing very well
C28_Witness ==
    /\ SameSnapshot
    /\ Get(difficulty_calls[1].performance_scores, "overall", T(50)) = 801
    /\ difficulty_calls[1].current_question_num = 3
    /\ difficulty_calls[1].difficulty = "harder"
    /\ BeginsWith(context_calls[1].context,
                  "The candidate is performing very well.")

\* the waveform librosa decoded for the call on record
Decoded == extraction.audio_path.librosa.returned

\* C29: on the full path, whenever the speech duration does not exceed the
\* duration, words_per_minute is 120 * speech_duration / duration (0 for a
\* clip of no duration), at most 120, pace_score is at most 80 and the
\* summary does not say "Great speaking pace".
C29_PaceAtMost80 ==
    (Scored /\ LessEq(Decoded.speech_duration, Decoded.duration))
    => LET v == extraction.locals
       IN  /\ v.words_per_minute =
                 IF Decoded.duration = Num(0) THEN Num(0)
                 ELSE Div(Mul(Num(120), Decoded.speech_duration), Decoded.duration)
           /\ LessEq(v.words_per_minute, Num(120))
           /\ LessEq(v.pace_score, Num(80))
           /\ Returned.pace_score <= T(80)
           /\ ~StrContains(Returned.analysis_summary, "Great speaking pace")

\* speech in every frame of the clip: 120 words per minute, pace 80
C29_Witness ==
    /\ Scored
    /\ Decoded.speech_duration = Decoded.duration
    /\ Decoded.duration = Num(10)
    /\ extraction.locals.words_per_minute = Num(120)
    /\ extraction.locals.pace_score = Num(80)
    /\ StrContains(Returned.analysis_summary, "Good speaking pace")

\* a turn's audio_metrics is no data: absent, empty, or with a truthy error
NoData(turn) ==
    \/ "audio_metrics" \notin DOMAIN turn
    \/ DOMAIN turn.audio_metrics = {}
    \/ "error" \in DOMAIN turn.audio_metrics /\ turn.audio_metrics.error # ""

RECURSIVE Contributions(_, _)
\* what the turns of h with data contribute to the list of a score, in
\* order: the score, or 0 where the record lacks it
Contributions(h, key) ==
    IF h = <<>> THEN <<>>
    ELSE (IF NoData(Head(h)) THEN <<>>
          ELSE IF key \in DOMAIN Head(h).audio_metrics
               THEN <<Head(h).audio_metrics[key]>>
               ELSE <<0>>)
         \o Contributions(Tail(h), key)

\* the latest call scored a history that is not empty: the lists on record
\* are the lists of that call
ListsOfLatestCall == calls # <<>> /\ calls[Len(calls)].history # <<>>

\* C30: calculate_performance_score leaves a turn out of the audio averages
\* only when its audio_metrics is absent, empty or has a truthy error, also
\* when such a record carries scores; any other record enters all three
\* lists, with 0 for a score it lacks.
C30_NoDataOnlyWhenAbsentEmptyOrError ==
    ListsOfLatestCall
    => LET h == calls[Len(calls)].history
       IN  /\ lists.pace = Contributions(h, "pace_score")
           /\ lists.confidence = Contributions(h, "confidence_score")
           /\ lists.tone = Contributions(h, "tone_score")
           /\ Len(lists.pace) = Cardinality({k \in DOMAIN h : ~NoData(h[k])})
           /\ Len(lists.confidence) = Len(lists.pace)
           /\ Len(lists.tone) = Len(lists.pace)

\* a record of nothing but pace_score 80 and an error-tagged record with
\* perfect scores have been scored: pace 80, confidence and tone 0
C30_Witness ==
    /\ ListsOfLatestCall
    /\ calls[Len(calls)].history =
          <<[answer |-> Words(21), audio_metrics |-> [pace_score |-> T(80)]],
            [answer |-> PaddedAnswer,
             audio_metrics |-> [error |-> "decode failed", pace_score |-> T(100),
                                confidence_score |-> T(100),
                                tone_score |-> T(100)]]>>
    /\ lists.pace = <<T(80)>>
    /\ lists.confidence = <<0>>
    /\ calls[Len(calls)].scores.pace = T(80)
    /\ calls[Len(calls)].scores.tone = 0

=============================================================================
